---- MODULE Spec2Model ----
(***************************************************************************)
(* The disaster-data collection pipeline of                                *)
(* google_adk/5_disaster_data_agent/agent.py: seed-query search, crawl,    *)
(* extraction, Kafka packet assembly and formatting; the Python execution  *)
(* tool and the MCP tools description of                                   *)
(* google_adk/mcp_apwrims_agent_with_code_execution; and the graph of      *)
(* langgraph/2_multi_tool_agent; as state machines over Python values.     *)
(***************************************************************************)
EXTENDS Integers, Sequences, FiniteSets, TLC

VARIABLES
    now,        \* the wall clock, in whole seconds
    pkArgs,     \* generate_kafka_packets: the three arguments of the call
    pkOut,      \* generate_kafka_packets: nothing yet, a raised exception, or the returned dict
    pkPrev,     \* generate_kafka_packets: the arguments and outcome of the call before this one
    srArgs,     \* search_web_for_disaster_data: the arguments, and whether ddgs can be imported and started
    srPc,       \* search: "idle", "start", "loop" (about to issue query srIdx) or "done"
    srIdx,      \* search: index of the next seed query
    srResults,  \* search: the results dict created before the query loop
    srFound,    \* search: discovered_urls so far, in discovery order
    srOut,      \* search: nothing yet, or the returned dict
    srLog,      \* search, when the run is traced: for each query handled, whether it
                \* failed and the entries it appended
    crArgs,     \* crawl_urls_with_ai: the urls argument, whether the caller's thread runs an
                \* event loop, and whether crawl4ai can be imported
    crPc,       \* crawl, the calling thread: "idle", "start", "waiting" (future.result),
                \* "shutdown" (leaving the executor's with block), "direct" (asyncio.run) or "done"
    crUrls,     \* crawl: the urls the loop iterates over, once the argument is parsed
    crCo,       \* crawl: where crawl_async stands, on whichever thread runs it
    crResults,  \* crawl: the results dict crawl_async fills
    crFetched,  \* crawl: the urls crawler.arun was called with, in call order
    crRunOn,    \* crawl: the threads asyncio.run was called on
    crTimedOut, \* crawl: future.result gave up after the 120 seconds
    crOut,      \* crawl: nothing yet, or the returned dict
    crGot,      \* crawl: what crawler.arun gave back, in call order
    crOther,    \* crawl: the locals of a second call running at the same time, while
                \* the variables above hold those of the call that takes the next step
    exArgs,     \* extract_structured_data: the document given, and whether bs4 can be imported
    exOut,      \* extract_structured_data: nothing yet, or the returned dict
    fmArgs,     \* format_kafka_packets_for_output: the packet_data given
    fmOut,      \* format_kafka_packets_for_output: nothing yet, a raised exception, or
                \* the returned dict
    EXEC_GLOBALS,   \* python_exec_tool: the module's _EXEC_GLOBALS dict
    pyCalls,    \* run_python_code: the calls made so far, each with its code, how many of
                \* its statements ran to their end, and its outcome
    mcArgs,     \* _get_mcp_tools_description_sync: whether the calling thread runs an event
                \* loop, and what mcp_toolset.get_tools() will give
    mcPc,       \* description, the calling thread: "idle", "start", "joining" (t.join) or "done"
    mcThread,   \* description: the runner thread: "none", "started", "finished" or "raised"
    mcResult,   \* description: the result dict the runner thread writes into
    mcRunOn,    \* description: the threads asyncio.run was called on, each with whether
                \* it runs an event loop
    mcOut,      \* description: nothing yet, a raised exception, or the returned string
    lgNode,     \* LangGraph agent: the node the run is about to enter: "idle", START,
                \* "agent", "tools" or END
    lgMessages, \* LangGraph agent: state["messages"]
    lgTrace     \* LangGraph agent: the nodes run so far, each with the last message it left

pkVars == <<pkArgs, pkOut, pkPrev>>
srVars == <<srArgs, srPc, srIdx, srResults, srFound, srOut, srLog>>
crVars == <<crArgs, crPc, crUrls, crCo, crResults, crFetched, crRunOn, crTimedOut, crOut,
            crGot, crOther>>
exVars == <<exArgs, exOut>>
fmVars == <<fmArgs, fmOut>>
pyVars == <<EXEC_GLOBALS, pyCalls>>
mcVars == <<mcArgs, mcPc, mcThread, mcResult, mcRunOn, mcOut>>
lgVars == <<lgNode, lgMessages, lgTrace>>
toolVars == <<fmVars, pyVars, mcVars, lgVars>>
vars == <<now, pkVars, srVars, crVars, exVars, toolVars>>

\* What the actions of one stage leave unchanged
pkRest == <<srVars, crVars, exVars, toolVars>>
srRest == <<pkVars, crVars, exVars, toolVars>>
crRest == <<now, pkVars, srVars, exVars, toolVars>>
exRest == <<pkVars, srVars, crVars, toolVars>>
fmRest == <<now, pkVars, srVars, crVars, exVars, pyVars, mcVars, lgVars>>
pyRest == <<now, pkVars, srVars, crVars, exVars, fmVars, mcVars, lgVars>>
mcRest == <<now, pkVars, srVars, crVars, exVars, fmVars, pyVars, lgVars>>
lgRest == <<now, pkVars, srVars, crVars, exVars, fmVars, pyVars, mcVars>>

------------------------------------------------------------------------------
(* Bounds of the model *)

MaxClock == 1       \* the clock runs over 0..MaxClock
MaxUrls == 2        \* longest discovered_urls list given to the packet builder
MaxCrawled == 2     \* longest crawled_data list given to the packet builder
MaxFound == 2       \* most results the search provider returns over one search
MaxCrawlUrls == 2   \* longest list of urls given to the crawl
MaxParagraphs == 2  \* most <p> elements of a document given to the extraction
MaxMockResults == 4 \* largest max_results of a search answered from the mock list
MaxStatements == 2  \* most statements of the code given to one run_python_code call
MaxRuns == 2        \* most run_python_code calls in the life of the process
MaxTools == 2       \* most tools the MCP server lists
MaxAgentSteps == 3  \* most calls of the model in one run of the LangGraph agent
MaxToolCalls == 2   \* most tool calls in one response of the model

------------------------------------------------------------------------------
(* Python values.  A dict is a function on the set of its keys. *)

EmptyDict == [k \in {} |-> 0]

\* d.get(k, default)
Get(d, k, default) == IF k \in DOMAIN d THEN d[k] ELSE default

\* d.get(k): None when the key is missing
PyNone == [none |-> TRUE]
GetOrNone(d, k) == IF k \in DOMAIN d THEN [none |-> FALSE, v |-> d[k]] ELSE PyNone

\* d[k] = v
Put(d, k, v) == [x \in (DOMAIN d) \cup {k} |-> IF x = k THEN v ELSE d[x]]

\* No call made yet, or no result yet
NotCalled == [called |-> FALSE]

\* All sequences over S of length at most n
SeqsUpTo(S, n) == UNION {[1..k -> S] : k \in 0..n}

------------------------------------------------------------------------------
(* JSON.  A str argument is None, the empty string, a text that is not     *)
(* JSON, or the JSON text of a value; a decoded value is null, a string    *)
(* (the sequence of its characters), an array or an object.                *)

ArgNone == [k |-> "none"]
ArgEmpty == [k |-> "empty"]
ArgMalformed == [k |-> "malformed"]
JsonNull == [t |-> "null"]
JsonString(chars) == [t |-> "string", chars |-> chars]
JsonArray(items) == [t |-> "array", items |-> items]
JsonObject(d) == [t |-> "object", d |-> d]

\* json.dumps(value)
JsonDumps(value) == [k |-> "json", v |-> value]

\* What is given where a str is expected and is neither a str nor None: a dict
ArgDict == [k |-> "dict"]

\* json.loads(text): the decoded value, JSONDecodeError, or TypeError for
\* what is not a str
JsonLoads(text) ==
    IF text.k = "json" THEN [raised |-> FALSE, value |-> text.v]
    ELSE IF text.k \in {"none", "dict"} THEN [raised |-> TRUE, exc |-> "TypeError"]
    ELSE [raised |-> TRUE, exc |-> "JSONDecodeError"]

\* bool(s) of an Optional[str]
StrTruthy(text) == text.k \notin {"none", "empty"}

\* bool(value) of a decoded JSON value
Truthy(value) ==
    CASE value.t = "null" -> FALSE
      [] value.t = "string" -> value.chars # <<>>
      [] value.t = "array" -> value.items # <<>>
      [] value.t = "object" -> DOMAIN value.d # {}

------------------------------------------------------------------------------
(* Inputs of the packet builder *)

\* Entries of discovered_urls: complete ones as the search stage writes
\* them, and ones with keys missing.
UrlEntries ==
    { [url |-> "https://a.in/x", title |-> "A", domain |-> "a.in",
       snippet |-> "sa", query |-> "q1", relevance_score |-> 4, timestamp |-> "t0"],
      [url |-> "https://b.in/y", title |-> "B", domain |-> "b.in",
       snippet |-> "sb", query |-> "q2", relevance_score |-> 3, timestamp |-> "t0"],
      [url |-> "https://a.in/x", title |-> "A2", domain |-> "a.in"],
      [title |-> "D", relevance_score |-> 0] }

\* Records of crawled_data, as the crawl stage writes them, and ones with
\* keys missing.
CrawlRecords ==
    { [url |-> "https://a.in/x", status |-> "success",
       content_size_bytes |-> 7, crawl_timestamp |-> "t1"],
      [url |-> "https://a.in/x", status |-> "error", error_message |-> "Crawl failed"],
      [url |-> "", status |-> "success", content_size_bytes |-> 1],
      [status |-> "success", content_size_bytes |-> 2, crawl_timestamp |-> "t3"] }

ExtractionDicts ==
    { [status |-> "success", url |-> "https://a.in/x",
       structured_data |-> [title |-> "T", paragraphs |-> <<"p">>],
       disaster_entities |-> [locations |-> <<"Kerala">>]],
      [status |-> "error", error_message |-> "e"] }

\* What is not an object, or not JSON at all
OddArgs ==
    { ArgNone, ArgEmpty, ArgMalformed, JsonDumps(JsonNull),
      JsonDumps(JsonArray(<<>>)), JsonDumps(JsonArray(<<1>>)),
      JsonDumps(JsonObject(EmptyDict)) }

SearchArgs ==
    OddArgs
    \cup { JsonDumps(JsonObject([status |-> "success", disaster_type |-> "floods",
                                 discovered_urls |-> l])) : l \in SeqsUpTo(UrlEntries, MaxUrls) }
    \cup { JsonDumps(JsonObject([status |-> "error", error_message |-> "e"])),
           JsonDumps(JsonObject([discovered_urls |-> <<[url |-> "https://b.in/y"]>>])) }

CrawlArgs ==
    { ArgNone, ArgMalformed, JsonDumps(JsonArray(<<1>>)), JsonDumps(JsonObject(EmptyDict)) }
    \cup { JsonDumps(JsonObject([status |-> "success", crawled_data |-> l])) :
             l \in SeqsUpTo(CrawlRecords, MaxCrawled) }
    \cup { JsonDumps(JsonObject([status |-> "error", error_message |-> "e"])) }

ExtractionArgs ==
    { ArgNone, ArgMalformed, JsonDumps(JsonArray(<<1>>)) }
    \cup { JsonDumps(JsonObject(d)) : d \in ExtractionDicts }

------------------------------------------------------------------------------
(* generate_kafka_packets *)

\* The crawl loop of one packet: every record whose url equals the entry's
\* overwrites the three crawl keys of the packet's content, in list order.
\* crawled_item.get("url") == url_data.get("url")
UrlMatches(crawled_item, url_data) ==
    GetOrNone(crawled_item, "url") = GetOrNone(url_data, "url")

RECURSIVE MergeCrawl(_, _, _)
MergeCrawl_FirstWins(content, crawled_items, url_data) ==
    LET matching == { i \in 1..Len(crawled_items) : UrlMatches(crawled_items[i], url_data) }
    IN  IF matching = {} THEN content
        ELSE LET crawled_item == crawled_items[CHOOSE i \in matching : \A j \in matching : i <= j]
             IN  Put(Put(Put(content,
                     "crawl_status", Get(crawled_item, "status", "")),
                     "crawled_html_size", Get(crawled_item, "content_size_bytes", 0)),
                     "crawl_timestamp", Get(crawled_item, "crawl_timestamp", ""))
MergeCrawl(content, crawled_items, url_data) ==
    IF crawled_items = <<>> THEN content
    ELSE LET crawled_item == Head(crawled_items)
             merged ==
                 IF UrlMatches(crawled_item, url_data)
                 THEN Put(Put(Put(content,
                          "crawl_status", Get(crawled_item, "status", "")),
                          "crawled_html_size", Get(crawled_item, "content_size_bytes", 0)),
                          "crawl_timestamp", Get(crawled_item, "crawl_timestamp", ""))
                 ELSE content
         IN MergeCrawl(merged, Tail(crawled_items), url_data)

Priority_AtLeast(url_data) ==
    IF Get(url_data, "relevance_score", 0) >= 3 THEN "high" ELSE "normal"
Priority(url_data) == IF Get(url_data, "relevance_score", 0) > 3 THEN "high" ELSE "normal"

\* The id of the packet built at index idx when the clock reads sec:
\* "disaster_data_<%Y%m%d_%H%M%S>_<idx>"
PacketId_PerCall(sec, idx) == <<"disaster_data", sec, idx, IF pkOut.called THEN 2 ELSE 1>>
PacketId_SecondOnly(sec, idx) == <<"disaster_data", sec, 0>>
PacketId(sec, idx) == <<"disaster_data", sec, idx>>

\* The extraction keys written into a packet's data
AddExtraction_CrawledOnly(data, extraction_data) ==
    IF data.content.crawl_status # "success" THEN data
    ELSE Put(Put([data EXCEPT !.content = Put(@, "extraction_status",
                                              Get(extraction_data, "status", ""))],
             "structured_content", Get(extraction_data, "structured_data", EmptyDict)),
             "disaster_entities", Get(extraction_data, "disaster_entities", EmptyDict))
AddExtraction(data, extraction_data) ==
    Put(Put([data EXCEPT !.content = Put(@, "extraction_status",
                                         Get(extraction_data, "status", ""))],
        "structured_content", Get(extraction_data, "structured_data", EmptyDict)),
        "disaster_entities", Get(extraction_data, "disaster_entities", EmptyDict))

\* search_data.get("discovered_urls", [])
DiscoveredUrls_DropLast(search_data) ==
    LET l == Get(search_data, "discovered_urls", <<>>)
    IN  IF Len(l) > 1 THEN SubSeq(l, 1, Len(l) - 1) ELSE l
DiscoveredUrls(search_data) == Get(search_data, "discovered_urls", <<>>)

\* One iteration of the packet loop; idx counts from 0, sec is the clock's
\* reading in that iteration.
BuildPacket(idx, url_data, search_data, crawl_data, extraction_data, sec) ==
    LET content0 == [snippet |-> Get(url_data, "snippet", ""),
                     crawl_status |-> "pending",
                     extraction_status |-> "pending"]
        content1 == IF Truthy(crawl_data)
                    THEN MergeCrawl(content0, Get(crawl_data.d, "crawled_data", <<>>), url_data)
                    ELSE content0
        data0 == [source |-> [url |-> Get(url_data, "url", ""),
                              domain |-> Get(url_data, "domain", ""),
                              title |-> Get(url_data, "title", ""),
                              discovery_timestamp |-> Get(url_data, "timestamp", "")],
                  metadata |-> [disaster_type |-> Get(search_data.d, "disaster_type", "unknown"),
                                search_query |-> Get(url_data, "query", ""),
                                relevance_score |-> Get(url_data, "relevance_score", 0)],
                  content |-> content1]
        data1 == IF Truthy(extraction_data) THEN AddExtraction(data0, extraction_data.d)
                 ELSE data0
    IN [packet_id |-> PacketId(sec, idx),
        packet_type |-> "disaster_data_collection",
        kafka_topic |-> "disaster-data-ingestion",
        timestamp |-> sec,
        schema_version |-> "1.0",
        data |-> data1,
        processing_instructions |-> [priority |-> Priority(url_data),
                                     requires_crawl |-> TRUE,
                                     requires_extraction |-> TRUE,
                                     retention_days |-> 365]]

Raised(exc) == [raised |-> TRUE, exc |-> exc]
Returned(value) == [raised |-> FALSE, value |-> value]

\* json.loads(s) if s else {}
LoadOrEmpty(text) == IF StrTruthy(text) THEN JsonLoads(text) ELSE Returned(JsonObject(EmptyDict))

\* The whole call.  reads[1] is the clock when the result dict is created,
\* reads[i + 1] the clock in the i-th iteration of the packet loop.
generate_kafka_packets(search_results, crawl_results, extraction_results, reads) ==
    LET search == LoadOrEmpty(search_results)
        crawl == LoadOrEmpty(crawl_results)
        extraction == LoadOrEmpty(extraction_results)
    IN  IF search.raised \/ crawl.raised \/ extraction.raised
        THEN Raised("JSONDecodeError")
        ELSE IF search.value.t # "object"
        THEN Raised("AttributeError")          \* search_data.get on None or a list
        ELSE LET discovered_urls == DiscoveredUrls(search.value.d)
             IN  IF discovered_urls # <<>>
                    /\ \/ (Truthy(crawl.value) /\ crawl.value.t # "object")
                       \/ (Truthy(extraction.value) /\ extraction.value.t # "object")
                 THEN Raised("AttributeError")  \* crawl_data.get / extraction_data.get on a list
                 ELSE Returned(
                        [status |-> "success",
                         timestamp |-> reads[1],
                         packet_count |-> Len(discovered_urls),
                         packets |-> [i \in 1..Len(discovered_urls) |->
                                        BuildPacket(i - 1, discovered_urls[i], search.value,
                                                    crawl.value, extraction.value,
                                                    reads[i + 1])]])

------------------------------------------------------------------------------
(* The packet builder as a state machine: the arguments are given, the call *)
(* is made once, and the clock may advance while it runs.                   *)

\* Clock readings of a call that starts at t: n + 1 readings, never going back
ClockReads(t, n) ==
    { r \in [1..(n + 1) -> t..MaxClock] : \A i \in 1..n : r[i] <= r[i + 1] }

\* How many packets the call will build (0 when it raises first)
LoopLength(search_results) ==
    LET search == LoadOrEmpty(search_results)
    IN  IF ~search.raised /\ search.value.t = "object"
        THEN Len(DiscoveredUrls(search.value.d)) ELSE 0

PkInit ==
    /\ pkArgs \in [search_results : SearchArgs, crawl_results : CrawlArgs,
                   extraction_results : ExtractionArgs]
    /\ pkOut = NotCalled /\ pkPrev = NotCalled

GenerateKafkaPackets ==
    /\ pkOut = NotCalled
    /\ \E reads \in ClockReads(now, LoopLength(pkArgs.search_results)) :
         /\ pkOut' = [called |-> TRUE,
                      out |-> generate_kafka_packets(pkArgs.search_results, pkArgs.crawl_results,
                                                     pkArgs.extraction_results, reads)]
         /\ now' = reads[Len(reads)]
    /\ UNCHANGED <<pkArgs, pkPrev, pkRest>>

\* Arguments for two calls in a row: search results only
RepeatArgs ==
    { [search_results |-> JsonDumps(JsonObject([status |-> "success",
                                                disaster_type |-> "floods",
                                                discovered_urls |-> l])),
       crawl_results |-> ArgNone, extraction_results |-> ArgNone] :
        l \in SeqsUpTo({ entry \in UrlEntries : "relevance_score" \in DOMAIN entry }, MaxUrls) }

PkInitRepeat == pkArgs \in RepeatArgs /\ pkOut = NotCalled /\ pkPrev = NotCalled

\* The builder is called once more, with arguments of its own, after the
\* first call is over
GenerateKafkaPacketsAgain ==
    /\ pkOut # NotCalled /\ pkPrev = NotCalled
    /\ pkPrev' = [called |-> TRUE, args |-> pkArgs, out |-> pkOut.out]
    /\ \E args \in RepeatArgs :
         \E reads \in ClockReads(now, LoopLength(args.search_results)) :
            /\ pkArgs' = args
            /\ pkOut' = [called |-> TRUE,
                         out |-> generate_kafka_packets(args.search_results, args.crawl_results,
                                                        args.extraction_results, reads)]
            /\ now' = reads[Len(reads)]
    /\ UNCHANGED pkRest

PkIdle == pkArgs = NotCalled /\ pkOut = NotCalled /\ pkPrev = NotCalled

------------------------------------------------------------------------------
(* format_kafka_packets_for_output *)

KafkaConfig ==
    [topic |-> "disaster-data-ingestion", key_field |-> "packet_id",
     partition_key |-> "disaster_type", serialization |-> "json"]

\* packets.get("packets", [{}])[0] if packets.get("packets") else {}
SamplePacket_Last(packets) ==
    IF Get(packets, "packets", <<>>) # <<>> THEN packets.packets[Len(packets.packets)]
    ELSE EmptyDict
SamplePacket(packets) ==
    IF Get(packets, "packets", <<>>) # <<>> THEN packets.packets[1] ELSE EmptyDict

\* The summary line, by the count it names
SummaryLine(count) == <<"Generated ", count, " Kafka message packets ready for ingestion">>

format_kafka_packets_for_output(packet_data) ==
    LET loaded == JsonLoads(packet_data)
    IN  IF loaded.raised
        THEN Returned([status |-> "error", error_message |-> "Invalid packet data format"])
        ELSE IF loaded.value.t # "object"
        THEN Raised("AttributeError")          \* packets.get on None or a list
        ELSE LET packets == loaded.value.d
             IN  Returned([status |-> "success",
                           total_packets |-> Get(packets, "packet_count", 0),
                           timestamp |-> Get(packets, "timestamp", ""),
                           summary |-> SummaryLine(Get(packets, "packet_count", 0)),
                           sample_packet |-> SamplePacket(packets),
                           all_packets |-> Get(packets, "packets", <<>>),
                           kafka_config |-> KafkaConfig])

\* Arguments of a builder call whose result is then formatted: entries with
\* a score, with or without a crawl result and an extraction result
FormattedCallArgs ==
    { [search_results |-> a.search_results, crawl_results |-> c, extraction_results |-> x] :
        a \in RepeatArgs,
        c \in {ArgNone, JsonDumps(JsonObject([status |-> "success",
                                              crawled_data |-> <<[url |-> "https://a.in/x",
                                                                  status |-> "success",
                                                                  content_size_bytes |-> 7,
                                                                  crawl_timestamp |-> "t1"]>>]))},
        x \in {ArgNone, JsonDumps(JsonObject([status |-> "error", error_message |-> "e"]))} }

PkInitFormatted == pkArgs \in FormattedCallArgs /\ pkOut = NotCalled /\ pkPrev = NotCalled

\* What the formatter is given besides the encoding of a builder result
OddPacketData ==
    { ArgNone, ArgDict, ArgEmpty, ArgMalformed, JsonDumps(JsonNull),
      JsonDumps(JsonArray(<<1>>)), JsonDumps(JsonObject(EmptyDict)) }

FmIdle == fmArgs = NotCalled /\ fmOut = NotCalled

\* The formatter is called once, on json.dumps of the dict the builder
\* returned or on one of the other arguments
FormatKafkaPacketsForOutput ==
    /\ fmOut = NotCalled
    /\ \E packet_data \in OddPacketData \cup
            (IF pkOut.called /\ ~pkOut.out.raised
             THEN {JsonDumps(JsonObject(pkOut.out.value))} ELSE {}) :
         /\ fmArgs' = [called |-> TRUE, packet_data |-> packet_data]
         /\ fmOut' = [called |-> TRUE, out |-> format_kafka_packets_for_output(packet_data)]
    /\ UNCHANGED fmRest

------------------------------------------------------------------------------
(* Text.  A str whose characters matter is the sequence of its characters. *)

Lower(c) ==
    CASE c = "A" -> "a" [] c = "B" -> "b" [] c = "C" -> "c" [] c = "D" -> "d"
      [] c = "E" -> "e" [] c = "F" -> "f" [] c = "G" -> "g" [] c = "H" -> "h"
      [] c = "I" -> "i" [] c = "J" -> "j" [] c = "K" -> "k" [] c = "L" -> "l"
      [] c = "M" -> "m" [] c = "N" -> "n" [] c = "O" -> "o" [] c = "P" -> "p"
      [] c = "Q" -> "q" [] c = "R" -> "r" [] c = "S" -> "s" [] c = "T" -> "t"
      [] c = "U" -> "u" [] c = "V" -> "v" [] c = "W" -> "w" [] c = "X" -> "x"
      [] c = "Y" -> "y" [] c = "Z" -> "z" [] OTHER -> c

\* s.lower()
StrLower(s) == [i \in 1..Len(s) |-> Lower(s[i])]

\* sub in s
Contains(sub, s) ==
    \E i \in 0..(Len(s) - Len(sub)) : \A j \in 1..Len(sub) : s[i + j] = sub[j]

\* s[:n], n >= 0
Prefix(s, n) == SubSeq(s, 1, IF n < Len(s) THEN n ELSE Len(s))

\* l[:n] of a list, for any integer n
Slice_Last(l, n) == SubSeq(l, Len(l) - (IF n < Len(l) THEN n ELSE Len(l)) + 1, Len(l))
Slice(l, n) ==
    IF n >= 0 THEN Prefix(l, n)
    ELSE IF Len(l) + n > 0 THEN SubSeq(l, 1, Len(l) + n) ELSE <<>>

------------------------------------------------------------------------------
(* search_web_for_disaster_data *)

Categories == <<"floods", "droughts", "cyclones", "earthquakes", "landslides">>

SEED_QUERIES ==
    [floods |-> <<"India floods latest news", "India flood disaster updates",
                  "India monsoon flooding", "India flood affected areas">>,
     droughts |-> <<"India drought conditions", "India water scarcity news",
                    "India drought affected regions", "India rainfall deficit">>,
     cyclones |-> <<"India cyclone latest update", "India tropical cyclone warning",
                    "India Bay of Bengal cyclone", "India Arabian Sea cyclone">>,
     earthquakes |-> <<"India earthquake latest news", "India seismic activity",
                       "India earthquake tremors", "India earthquake affected areas">>,
     landslides |-> <<"India landslide news", "India hill slope failure",
                      "India landslide disaster", "India monsoon landslides">>]

\* The queries of a category: all twenty for "all", none selected for an
\* unknown category.
SelectQueries_AllByDefault(disaster_type) ==
    IF disaster_type \in DOMAIN SEED_QUERIES
    THEN [known |-> TRUE, queries |-> SEED_QUERIES[disaster_type]]
    ELSE [known |-> TRUE,
          queries |-> SEED_QUERIES[Categories[1]] \o SEED_QUERIES[Categories[2]]
                      \o SEED_QUERIES[Categories[3]] \o SEED_QUERIES[Categories[4]]
                      \o SEED_QUERIES[Categories[5]]]
SelectQueries(disaster_type) ==
    IF disaster_type = "all"
    THEN [known |-> TRUE,
          queries |-> SEED_QUERIES[Categories[1]] \o SEED_QUERIES[Categories[2]]
                      \o SEED_QUERIES[Categories[3]] \o SEED_QUERIES[Categories[4]]
                      \o SEED_QUERIES[Categories[5]]]
    ELSE IF disaster_type \in DOMAIN SEED_QUERIES
    THEN [known |-> TRUE, queries |-> SEED_QUERIES[disaster_type]]
    ELSE [known |-> FALSE]

\* "disaster"
KW_DISASTER ==
    <<"d", "i", "s", "a", "s", "t", "e", "r">>
\* "india"
KW_INDIA ==
    <<"i", "n", "d", "i", "a">>
\* "alert"
KW_ALERT ==
    <<"a", "l", "e", "r", "t">>
\* "warning"
KW_WARNING ==
    <<"w", "a", "r", "n", "i", "n", "g">>
\* "emergency"
KW_EMERGENCY ==
    <<"e", "m", "e", "r", "g", "e", "n", "c", "y">>
\* "relief"
KW_RELIEF ==
    <<"r", "e", "l", "i", "e", "f">>
\* "India Floods: NDMA Emergency Response and Relief Operations"
MOCK_TITLE_1 ==
    <<"I", "n", "d", "i", "a", " ", "F", "l", "o", "o", "d", "s", ":", " ", "N", "D",
      "M", "A", " ", "E", "m", "e", "r", "g", "e", "n", "c", "y", " ", "R", "e", "s",
      "p", "o", "n", "s", "e", " ", "a", "n", "d", " ", "R", "e", "l", "i", "e", "f",
      " ", "O", "p", "e", "r", "a", "t", "i", "o", "n", "s">>
\* "The National Disaster Management Authority (NDMA) has issued flood warnings for multiple states. Emergency relief operations are underway in Kerala, Maharashtra, and West Bengal."
MOCK_SNIPPET_1 ==
    <<"T", "h", "e", " ", "N", "a", "t", "i", "o", "n", "a", "l", " ", "D", "i", "s",
      "a", "s", "t", "e", "r", " ", "M", "a", "n", "a", "g", "e", "m", "e", "n", "t",
      " ", "A", "u", "t", "h", "o", "r", "i", "t", "y", " ", "(", "N", "D", "M", "A",
      ")", " ", "h", "a", "s", " ", "i", "s", "s", "u", "e", "d", " ", "f", "l", "o",
      "o", "d", " ", "w", "a", "r", "n", "i", "n", "g", "s", " ", "f", "o", "r", " ",
      "m", "u", "l", "t", "i", "p", "l", "e", " ", "s", "t", "a", "t", "e", "s", ".",
      " ", "E", "m", "e", "r", "g", "e", "n", "c", "y", " ", "r", "e", "l", "i", "e",
      "f", " ", "o", "p", "e", "r", "a", "t", "i", "o", "n", "s", " ", "a", "r", "e",
      " ", "u", "n", "d", "e", "r", "w", "a", "y", " ", "i", "n", " ", "K", "e", "r",
      "a", "l", "a", ",", " ", "M", "a", "h", "a", "r", "a", "s", "h", "t", "r", "a",
      ",", " ", "a", "n", "d", " ", "W", "e", "s", "t", " ", "B", "e", "n", "g", "a",
      "l", ".">>
\* "Major Flooding Reported Across India: Thousands Displaced"
MOCK_TITLE_2 ==
    <<"M", "a", "j", "o", "r", " ", "F", "l", "o", "o", "d", "i", "n", "g", " ", "R",
      "e", "p", "o", "r", "t", "e", "d", " ", "A", "c", "r", "o", "s", "s", " ", "I",
      "n", "d", "i", "a", ":", " ", "T", "h", "o", "u", "s", "a", "n", "d", "s", " ",
      "D", "i", "s", "p", "l", "a", "c", "e", "d">>
\* "Heavy monsoon rains have caused severe flooding in India with thousands evacuated. Disaster management teams are on alert across multiple states."
MOCK_SNIPPET_2 ==
    <<"H", "e", "a", "v", "y", " ", "m", "o", "n", "s", "o", "o", "n", " ", "r", "a",
      "i", "n", "s", " ", "h", "a", "v", "e", " ", "c", "a", "u", "s", "e", "d", " ",
      "s", "e", "v", "e", "r", "e", " ", "f", "l", "o", "o", "d", "i", "n", "g", " ",
      "i", "n", " ", "I", "n", "d", "i", "a", " ", "w", "i", "t", "h", " ", "t", "h",
      "o", "u", "s", "a", "n", "d", "s", " ", "e", "v", "a", "c", "u", "a", "t", "e",
      "d", ".", " ", "D", "i", "s", "a", "s", "t", "e", "r", " ", "m", "a", "n", "a",
      "g", "e", "m", "e", "n", "t", " ", "t", "e", "a", "m", "s", " ", "a", "r", "e",
      " ", "o", "n", " ", "a", "l", "e", "r", "t", " ", "a", "c", "r", "o", "s", "s",
      " ", "m", "u", "l", "t", "i", "p", "l", "e", " ", "s", "t", "a", "t", "e", "s",
      ".">>
\* "India Meteorological Department: Severe Weather Alert"
MOCK_TITLE_3 ==
    <<"I", "n", "d", "i", "a", " ", "M", "e", "t", "e", "o", "r", "o", "l", "o", "g",
      "i", "c", "a", "l", " ", "D", "e", "p", "a", "r", "t", "m", "e", "n", "t", ":",
      " ", "S", "e", "v", "e", "r", "e", " ", "W", "e", "a", "t", "h", "e", "r", " ",
      "A", "l", "e", "r", "t">>
\* "IMD issues red alert for cyclone warning in Bay of Bengal. Coastal areas of Odisha and Andhra Pradesh on high alert. Emergency preparedness measures activated."
MOCK_SNIPPET_3 ==
    <<"I", "M", "D", " ", "i", "s", "s", "u", "e", "s", " ", "r", "e", "d", " ", "a",
      "l", "e", "r", "t", " ", "f", "o", "r", " ", "c", "y", "c", "l", "o", "n", "e",
      " ", "w", "a", "r", "n", "i", "n", "g", " ", "i", "n", " ", "B", "a", "y", " ",
      "o", "f", " ", "B", "e", "n", "g", "a", "l", ".", " ", "C", "o", "a", "s", "t",
      "a", "l", " ", "a", "r", "e", "a", "s", " ", "o", "f", " ", "O", "d", "i", "s",
      "h", "a", " ", "a", "n", "d", " ", "A", "n", "d", "h", "r", "a", " ", "P", "r",
      "a", "d", "e", "s", "h", " ", "o", "n", " ", "h", "i", "g", "h", " ", "a", "l",
      "e", "r", "t", ".", " ", "E", "m", "e", "r", "g", "e", "n", "c", "y", " ", "p",
      "r", "e", "p", "a", "r", "e", "d", "n", "e", "s", "s", " ", "m", "e", "a", "s",
      "u", "r", "e", "s", " ", "a", "c", "t", "i", "v", "a", "t", "e", "d", ".">>
\* "India Flood ALERT"
TITLE_A ==
    <<"I", "n", "d", "i", "a", " ", "F", "l", "o", "o", "d", " ", "A", "L", "E", "R",
      "T">>
\* "Relief on the way. Roads are closed and trains are delayed across the coastal districts after heavy rain; schools stay closed, boats carry food and water to the villages, and power is cut in town. warning issued."
BODY_A ==
    <<"R", "e", "l", "i", "e", "f", " ", "o", "n", " ", "t", "h", "e", " ", "w", "a",
      "y", ".", " ", "R", "o", "a", "d", "s", " ", "a", "r", "e", " ", "c", "l", "o",
      "s", "e", "d", " ", "a", "n", "d", " ", "t", "r", "a", "i", "n", "s", " ", "a",
      "r", "e", " ", "d", "e", "l", "a", "y", "e", "d", " ", "a", "c", "r", "o", "s",
      "s", " ", "t", "h", "e", " ", "c", "o", "a", "s", "t", "a", "l", " ", "d", "i",
      "s", "t", "r", "i", "c", "t", "s", " ", "a", "f", "t", "e", "r", " ", "h", "e",
      "a", "v", "y", " ", "r", "a", "i", "n", ";", " ", "s", "c", "h", "o", "o", "l",
      "s", " ", "s", "t", "a", "y", " ", "c", "l", "o", "s", "e", "d", ",", " ", "b",
      "o", "a", "t", "s", " ", "c", "a", "r", "r", "y", " ", "f", "o", "o", "d", " ",
      "a", "n", "d", " ", "w", "a", "t", "e", "r", " ", "t", "o", " ", "t", "h", "e",
      " ", "v", "i", "l", "l", "a", "g", "e", "s", ",", " ", "a", "n", "d", " ", "p",
      "o", "w", "e", "r", " ", "i", "s", " ", "c", "u", "t", " ", "i", "n", " ", "t",
      "o", "w", "n", ".", " ", "w", "a", "r", "n", "i", "n", "g", " ", "i", "s", "s",
      "u", "e", "d", ".">>
\* "Emergency"
TITLE_B ==
    <<"E", "m", "e", "r", "g", "e", "n", "c", "y">>
\* "Disaster warning: india alert, relief"
BODY_B ==
    <<"D", "i", "s", "a", "s", "t", "e", "r", " ", "w", "a", "r", "n", "i", "n", "g",
      ":", " ", "i", "n", "d", "i", "a", " ", "a", "l", "e", "r", "t", ",", " ", "r",
      "e", "l", "i", "e", "f">>
\* "Warning"
TITLE_C ==
    <<"W", "a", "r", "n", "i", "n", "g">>

Keywords ==
    <<KW_DISASTER, KW_INDIA, KW_ALERT,
      KW_WARNING, KW_EMERGENCY, KW_RELIEF>>

\* The relevance heuristic: the number of keywords found in the title or
\* in the body, whatever the case.
RelevanceScore(title, body) ==
    Cardinality({ k \in 1..Len(Keywords) :
                    \/ Contains(StrLower(Keywords[k]), StrLower(title))
                    \/ Contains(StrLower(Keywords[k]), StrLower(body)) })

\* urlparse(url).netloc, on the URLs of the model
NetLoc(url) ==
    CASE url = "https://ndma.gov.in/floods" -> "ndma.gov.in"
      [] url = "https://imd.gov.in/warnings" -> "imd.gov.in"
      [] OTHER -> ""

SnippetLength == 200

\* The entry appended for one provider result
UrlEntry(result, query, t) ==
    [url |-> Get(result, "href", ""),
     title |-> Get(result, "title", <<>>),
     domain |-> NetLoc(Get(result, "href", "")),
     snippet |-> Prefix(Get(result, "body", <<>>), SnippetLength),
     query |-> query,
     relevance_score |-> RelevanceScore(Get(result, "title", <<>>), Get(result, "body", <<>>)),
     timestamp |-> t]

\* discovered_urls.sort(key=lambda x: x["relevance_score"], reverse=True):
\* a stable sort, entries of equal score keep their order.
RECURSIVE InsertByScore_BeforeEquals(_, _)
InsertByScore_BeforeEquals(sorted, x) ==
    IF sorted = <<>> THEN <<x>>
    ELSE IF Head(sorted).relevance_score > x.relevance_score
    THEN <<Head(sorted)>> \o InsertByScore_BeforeEquals(Tail(sorted), x)
    ELSE <<x>> \o sorted
RECURSIVE InsertByScore(_, _)
InsertByScore(sorted, x) ==
    IF sorted = <<>> THEN <<x>>
    ELSE IF Head(sorted).relevance_score >= x.relevance_score
    THEN <<Head(sorted)>> \o InsertByScore(Tail(sorted), x)
    ELSE <<x>> \o sorted

RECURSIVE SortByRelevance(_)
SortByRelevance_Unsorted(l) == l
SortByRelevance(l) ==
    IF l = <<>> THEN <<>>
    ELSE InsertByScore(SortByRelevance(SubSeq(l, 1, Len(l) - 1)), l[Len(l)])

\* The three mock entries
MockUrls(disaster_type, t) ==
    <<[url |-> "https://www.ndma.gov.in/disaster-management/floods",
       title |-> MOCK_TITLE_1,
       domain |-> "ndma.gov.in",
       snippet |-> MOCK_SNIPPET_1,
       query |-> <<"India ", disaster_type, " latest news">>,
       relevance_score |-> 9,
       timestamp |-> t],
      [url |-> "https://www.thehindu.com/news/national/floods-india-2024",
       title |-> MOCK_TITLE_2,
       domain |-> "thehindu.com",
       snippet |-> MOCK_SNIPPET_2,
       query |-> <<"India ", disaster_type, " disaster updates">>,
       relevance_score |-> 8,
       timestamp |-> t],
      [url |-> "https://www.imd.gov.in/weather-warnings",
       title |-> MOCK_TITLE_3,
       domain |-> "imd.gov.in",
       snippet |-> MOCK_SNIPPET_3,
       query |-> <<"India ", disaster_type, " affected areas">>,
       relevance_score |-> 7,
       timestamp |-> t]>>

\* The "Unknown disaster type" message: the category it names and the
\* valid types it lists
UnknownTypeMessage(disaster_type) ==
    [text |-> "Unknown disaster type", names |-> disaster_type,
     valid_types |-> Categories \o <<"all">>]

\* What the search provider may answer to one query
ProviderResults ==
    { [href |-> "https://ndma.gov.in/floods", title |-> TITLE_A, body |-> BODY_A],
      [href |-> "https://imd.gov.in/warnings", title |-> TITLE_B, body |-> BODY_B],
      [title |-> TITLE_C] }

MaxResultsChoices == {-1, 0, 1, 3}

DisasterTypes == {"floods", "droughts", "cyclones", "earthquakes", "landslides",
                  "all", "volcano", "Floods"}

\* The trace of a run that is not traced
Untraced == [traced |-> FALSE]

SrIdle ==
    /\ srArgs = NotCalled /\ srPc = "idle" /\ srIdx = 0 /\ srFound = <<>>
    /\ srResults = NotCalled /\ srOut = NotCalled /\ srLog = Untraced

SrInit ==
    /\ srArgs \in [disaster_type : DisasterTypes, max_results : MaxResultsChoices,
                   use_mock : BOOLEAN, ddgs_installed : BOOLEAN, ddgs_starts : BOOLEAN]
    /\ srPc = "start" /\ srIdx = 0 /\ srFound = <<>>
    /\ srResults = NotCalled /\ srOut = NotCalled /\ srLog = Untraced

\* A live search of one category, traced
SrInitTraced ==
    /\ srArgs \in [disaster_type : {"floods", "volcano"}, max_results : {0, 1, 3},
                   use_mock : {FALSE}, ddgs_installed : BOOLEAN, ddgs_starts : BOOLEAN]
    /\ srPc = "start" /\ srIdx = 0 /\ srFound = <<>>
    /\ srResults = NotCalled /\ srOut = NotCalled /\ srLog = [traced |-> TRUE, queries |-> <<>>]

\* A search answered from the mock list, for a max_results of zero or more
SrInitMock ==
    /\ srArgs \in [disaster_type : DisasterTypes, max_results : 0..MaxMockResults,
                   use_mock : {TRUE}, ddgs_installed : BOOLEAN, ddgs_starts : BOOLEAN]
    /\ srPc = "start" /\ srIdx = 0 /\ srFound = <<>>
    /\ srResults = NotCalled /\ srOut = NotCalled /\ srLog = Untraced

\* The call up to the query loop: the mock branch, the import, the choice
\* of queries and the start of the provider.
SearchStart ==
    /\ srPc = "start"
    /\ LET selected == SelectQueries(srArgs.disaster_type)
       IN  IF srArgs.use_mock
           THEN LET urls == Slice(MockUrls(srArgs.disaster_type, now), srArgs.max_results)
                IN  /\ srOut' = [called |-> TRUE,
                                 out |-> [status |-> "success",
                                          timestamp |-> now,
                                          disaster_type |-> srArgs.disaster_type,
                                          discovered_urls |-> urls,
                                          total_count |-> Len(urls),
                                          note |-> "Using mock data (network unavailable)"]]
                    /\ srPc' = "done" /\ srIdx' = srIdx /\ srResults' = srResults
           ELSE IF ~srArgs.ddgs_installed
           THEN /\ srOut' = [called |-> TRUE,
                             out |-> [status |-> "error",
                                      error_message |-> [text |-> "ddgs not installed"]]]
                /\ srPc' = "done" /\ srIdx' = srIdx /\ srResults' = srResults
           ELSE IF ~selected.known
           THEN /\ srOut' = [called |-> TRUE,
                             out |-> [status |-> "error",
                                      error_message |-> UnknownTypeMessage(srArgs.disaster_type)]]
                /\ srPc' = "done" /\ srIdx' = srIdx /\ srResults' = srResults
           ELSE IF ~srArgs.ddgs_starts
           THEN /\ srOut' = [called |-> TRUE,
                             out |-> [status |-> "error",
                                      error_message |-> [text |-> "Failed to initialize DDGS"]]]
                /\ srPc' = "done" /\ srIdx' = srIdx /\ srResults' = srResults
           ELSE /\ srPc' = "loop" /\ srIdx' = 1 /\ srOut' = srOut
                /\ srResults' = [status |-> "success",
                                  timestamp |-> now,
                                  disaster_type |-> srArgs.disaster_type,
                                  discovered_urls |-> <<>>,
                                  total_count |-> 0]
    /\ UNCHANGED <<srArgs, srFound, srLog, now, srRest>>

\* The result returned after the loop: the entries sorted, and counted
SearchResult(results, discovered_urls) ==
    [results EXCEPT !.discovered_urls = SortByRelevance(discovered_urls),
                    !.total_count = Len(discovered_urls)]

\* What the trace of a run holds for one query
Logged(log, failed, entries) ==
    IF ~log.traced THEN log
    ELSE [log EXCEPT !.queries = Append(@, [failed |-> failed, entries |-> entries])]

\* One iteration of the query loop, given the entries it appends to
\* discovered_urls and whether it ends in the handler; after the last query
\* the list is sorted and returned.
AfterQuery(entries, failed) ==
    /\ srLog' = Logged(srLog, failed, entries)
    /\ srFound' = srFound \o entries
    /\ IF srIdx = Len(SelectQueries(srArgs.disaster_type).queries)
       THEN /\ srPc' = "done"
            /\ srOut' = [called |-> TRUE, out |-> SearchResult(srResults, srFound \o entries)]
       ELSE /\ srPc' = "loop"
            /\ srOut' = srOut
    /\ srIdx' = srIdx + 1
    /\ UNCHANGED <<srArgs, srResults, now, srRest>>

\* The entries appended for the results of one query, in the provider's order
AppendedEntries(results, query, t) == [i \in 1..Len(results) |-> UrlEntry(results[i], query, t)]

\* The provider answers the query with at most max_results results.  The
\* clock is read for each entry; it is taken not to advance during a search.
QueryAnswered ==
    /\ srPc = "loop"
    /\ \E results \in SeqsUpTo(ProviderResults, MaxFound - Len(srFound)) :
         /\ Len(results) <= srArgs.max_results
         /\ LET query == SelectQueries(srArgs.disaster_type).queries[srIdx]
            IN  AfterQuery(AppendedEntries(results, query, now), FALSE)

\* The query ends in the handler, which goes on to the next query: the
\* provider raised (no result), or a result could not be processed (urlparse
\* on a malformed href, .lower() of a None title) after the entries of the
\* results before it were appended.
QueryFailed ==
    /\ srPc = "loop"
    /\ \E results \in SeqsUpTo(ProviderResults, MaxFound - Len(srFound)) :
         /\ Len(results) < srArgs.max_results \/ results = <<>>
         /\ LET query == SelectQueries(srArgs.disaster_type).queries[srIdx]
            IN  AfterQuery(AppendedEntries(results, query, now), TRUE)


------------------------------------------------------------------------------
(* crawl_urls_with_ai *)

\* A str of which only the length matters, and its slice s[:n]
Str(n) == [len |-> n]
StrPrefix(s, n) == Str(IF s.len < n THEN s.len ELSE n)

HtmlBudget == 5000
LinksBudget == 20
WaitSeconds == 120

\* The urls the loop iterates over: the list given, the list decoded from
\* a JSON text, or the text itself as the one url when it is not JSON.  A
\* JSON null cannot be iterated over.
ParseUrls(urls) ==
    IF urls.k = "list" THEN [iterable |-> TRUE, items |-> urls.v]
    ELSE LET decoded == JsonLoads(urls)
         IN  IF decoded.raised THEN [iterable |-> TRUE, items |-> <<urls.s>>]
             ELSE IF decoded.value.t = "array"
             THEN [iterable |-> TRUE, items |-> decoded.value.items]
             ELSE IF decoded.value.t = "string"     \* for url in "ab": "a", then "b"
             THEN [iterable |-> TRUE, items |-> decoded.value.chars]
             ELSE [iterable |-> FALSE, items |-> <<>>]

CrawlUrlPool == {"https://a.in/x", "https://b.in/y"}

CrawlUrlArgs ==
    { [k |-> "list", v |-> l] : l \in SeqsUpTo(CrawlUrlPool, MaxCrawlUrls) }
    \cup { JsonDumps(JsonArray(l)) : l \in SeqsUpTo(CrawlUrlPool, MaxCrawlUrls) }
    \cup { [k |-> "malformed", s |-> u] : u \in CrawlUrlPool }
    \cup { JsonDumps(JsonNull), JsonDumps(JsonString(<<"a", "b">>)) }

\* What crawler.arun may give back: a page, a failure with or without an
\* error_message attribute, or an exception.
FetchOutcomes ==
    { [kind |-> "page", html |-> Str(0), markdown |-> Str(0), links |-> 0],
      [kind |-> "page", html |-> Str(7), markdown |-> Str(3), links |-> 2],
      [kind |-> "page", html |-> Str(5001), markdown |-> Str(6000), links |-> 21],
      [kind |-> "failed", error_message |-> "timeout"],
      [kind |-> "failed"],
      [kind |-> "raised", exc |-> "fetch broke"] }

\* What creating, entering or leaving the crawler may raise
CrawlerErrors ==
    { [type |-> "RuntimeError", msg |-> "browser"], [type |-> "Exception", msg |-> "boom"] }

LoopAlreadyRunning ==
    [type |-> "RuntimeError", msg |-> "asyncio.run() cannot be called from a running event loop"]

\* The record appended to crawled_data for one url
CrawledItem_Untruncated(url, outcome, t) ==
    IF outcome.kind = "page"
    THEN [url |-> url,
          status |-> "success",
          html |-> outcome.html,
          markdown |-> outcome.markdown,
          links |-> outcome.links,
          crawl_timestamp |-> t,
          content_size_bytes |-> outcome.html.len]
    ELSE IF outcome.kind = "failed"
    THEN [url |-> url, status |-> "error",
          error_message |-> Get(outcome, "error_message", "Crawl failed")]
    ELSE [url |-> url, status |-> "error", error_message |-> outcome.exc]
CrawledItem(url, outcome, t) ==
    IF outcome.kind = "page"
    THEN [url |-> url,
          status |-> "success",
          html |-> StrPrefix(outcome.html, HtmlBudget),
          markdown |-> StrPrefix(outcome.markdown, HtmlBudget),
          links |-> IF outcome.links < LinksBudget THEN outcome.links ELSE LinksBudget,
          crawl_timestamp |-> t,
          content_size_bytes |-> outcome.html.len]
    ELSE IF outcome.kind = "failed"
    THEN [url |-> url, status |-> "error",
          error_message |-> Get(outcome, "error_message", "Crawl failed")]
    ELSE [url |-> url, status |-> "error", error_message |-> outcome.exc]

\* results after the record of one url is appended and counted
Recorded_CountedAsSuccess(results, url, outcome, t) ==
    [results EXCEPT
        !.crawled_data = Append(@, CrawledItem(url, outcome, t)),
        !.success_count = @ + 1,
        !.total_size_bytes = IF outcome.kind = "page" THEN @ + outcome.html.len ELSE @]
Recorded(results, url, outcome, t) ==
    [results EXCEPT
        !.crawled_data = Append(@, CrawledItem(url, outcome, t)),
        !.success_count = IF outcome.kind = "page" THEN @ + 1 ELSE @,
        !.error_count = IF outcome.kind = "page" THEN @ ELSE @ + 1,
        !.total_size_bytes = IF outcome.kind = "page" THEN @ + outcome.html.len ELSE @]

CrashResult_KeepsResults(exc) ==
    [crResults EXCEPT !.status = "error"]
CrashResult(exc) ==
    [status |-> "error",
     error_message |-> [text |-> "Failed to run async crawler", cause |-> exc]]

CoNone == [pc |-> "none"]

CrIdle ==
    /\ crArgs = NotCalled /\ crPc = "idle" /\ crUrls = NotCalled /\ crCo = CoNone
    /\ crResults = NotCalled /\ crFetched = <<>> /\ crRunOn = {} /\ crTimedOut = FALSE
    /\ crOut = NotCalled /\ crGot = <<>> /\ crOther = NotCalled

CrInit ==
    /\ crArgs \in [urls : CrawlUrlArgs, loop_running : BOOLEAN, crawl4ai_installed : BOOLEAN]
    /\ crPc = "start" /\ crUrls = NotCalled /\ crCo = CoNone
    /\ crResults = NotCalled /\ crFetched = <<>> /\ crRunOn = {} /\ crTimedOut = FALSE
    /\ crOut = NotCalled /\ crGot = <<>> /\ crOther = NotCalled

\* The locals of the call that takes the next step, and those of a call
\* that has not started yet
CrLocals ==
    [args |-> crArgs, pc |-> crPc, urls |-> crUrls, co |-> crCo, results |-> crResults,
     fetched |-> crFetched, runOn |-> crRunOn, timedOut |-> crTimedOut, out |-> crOut,
     got |-> crGot]

NotStarted(args) ==
    [args |-> args, pc |-> "start", urls |-> NotCalled, co |-> CoNone, results |-> NotCalled,
     fetched |-> <<>>, runOn |-> {}, timedOut |-> FALSE, out |-> NotCalled, got |-> <<>>]

\* Two calls at the same time, of different urls
CrInitPair ==
    /\ crArgs \in [urls : { [k |-> "list", v |-> <<"https://a.in/x">>],
                            [k |-> "list", v |-> <<"https://a.in/x", "https://b.in/y">>] },
                   loop_running : BOOLEAN, crawl4ai_installed : {TRUE}]
    /\ crPc = "start" /\ crUrls = NotCalled /\ crCo = CoNone
    /\ crResults = NotCalled /\ crFetched = <<>> /\ crRunOn = {} /\ crTimedOut = FALSE
    /\ crOut = NotCalled /\ crGot = <<>>
    /\ crOther \in { NotStarted(args) :
                        args \in [urls : { [k |-> "list", v |-> <<"https://b.in/y">>] },
                                  loop_running : BOOLEAN, crawl4ai_installed : {TRUE}] }

\* The scheduler turns to the other call
Switch ==
    /\ crOther # NotCalled
    /\ crOther' = CrLocals
    /\ crArgs' = crOther.args /\ crPc' = crOther.pc /\ crUrls' = crOther.urls
    /\ crCo' = crOther.co /\ crResults' = crOther.results /\ crFetched' = crOther.fetched
    /\ crRunOn' = crOther.runOn /\ crTimedOut' = crOther.timedOut /\ crOut' = crOther.out
    /\ crGot' = crOther.got
    /\ UNCHANGED crRest

\* The call up to the point where crawl_async is started: in a worker
\* thread of a new executor when the calling thread runs a loop, with
\* asyncio.run on the calling thread when it does not.
CrawlStart ==
    /\ crPc = "start"
    /\ crUrls' = ParseUrls(crArgs.urls)
    /\ IF ~crArgs.crawl4ai_installed
       THEN /\ crOut' = [called |-> TRUE,
                         out |-> [status |-> "error",
                                  error_message |-> [text |-> "crawl4ai not installed"]]]
            /\ crPc' = "done"
            /\ UNCHANGED <<crCo, crResults, crRunOn>>
       ELSE /\ crResults' = [status |-> "success", timestamp |-> now, crawled_data |-> <<>>,
                             success_count |-> 0, error_count |-> 0, total_size_bytes |-> 0]
            /\ crCo' = [pc |-> "enter"]
            /\ crPc' = IF crArgs.loop_running THEN "waiting" ELSE "direct"
            /\ crRunOn' = {IF crArgs.loop_running THEN "worker" ELSE "caller"}
            /\ crOut' = crOut
    /\ UNCHANGED <<crArgs, crFetched, crTimedOut, crGot, crOther, crRest>>

\* crawl_async: the crawler is created and entered
CoEnter ==
    /\ crCo.pc = "enter"
    /\ \/ crCo' = (IF ~crUrls.iterable
                   THEN [pc |-> "raised", exc |-> [type |-> "TypeError", msg |-> "not iterable"]]
                   ELSE IF crUrls.items = <<>> THEN [pc |-> "exit"]
                   ELSE [pc |-> "fetch", i |-> 1])
       \/ \E exc \in CrawlerErrors : crCo' = [pc |-> "raised", exc |-> exc]
    /\ UNCHANGED <<crArgs, crPc, crUrls, crResults, crFetched, crRunOn, crTimedOut, crOut,
                   crGot, crOther, crRest>>

\* crawl_async: one iteration of the loop over the urls
CoFetch_StopOnError ==
    /\ crCo.pc = "fetch"
    /\ \E outcome \in FetchOutcomes :
         /\ crFetched' = Append(crFetched, crUrls.items[crCo.i])
         /\ crGot' = Append(crGot, outcome)
         /\ crResults' = Recorded(crResults, crUrls.items[crCo.i], outcome, now)
         /\ crCo' = IF crCo.i = Len(crUrls.items) \/ outcome.kind = "raised"
                    THEN [pc |-> "exit"] ELSE [pc |-> "fetch", i |-> crCo.i + 1]
    /\ UNCHANGED <<crArgs, crPc, crUrls, crRunOn, crTimedOut, crOut, crOther, crRest>>
CoFetch_SharedResults ==
    /\ crCo.pc = "fetch"
    /\ \E outcome \in FetchOutcomes :
         /\ crFetched' = Append(crFetched, crUrls.items[crCo.i])
         /\ crGot' = Append(crGot, outcome)
         /\ crResults' = Recorded(crResults, crUrls.items[crCo.i], outcome, now)
         /\ crOther' = IF crOther # NotCalled /\ crOther.results # NotCalled
                       THEN [crOther EXCEPT !.results =
                                Recorded(@, crUrls.items[crCo.i], outcome, now)]
                       ELSE crOther
         /\ crCo' = IF crCo.i = Len(crUrls.items)
                    THEN [pc |-> "exit"] ELSE [pc |-> "fetch", i |-> crCo.i + 1]
    /\ UNCHANGED <<crArgs, crPc, crUrls, crRunOn, crTimedOut, crOut, crRest>>
CoFetch ==
    /\ crCo.pc = "fetch"
    /\ \E outcome \in FetchOutcomes :
         /\ crFetched' = Append(crFetched, crUrls.items[crCo.i])
         /\ crGot' = Append(crGot, outcome)
         /\ crResults' = Recorded(crResults, crUrls.items[crCo.i], outcome, now)
         /\ crCo' = IF crCo.i = Len(crUrls.items)
                    THEN [pc |-> "exit"] ELSE [pc |-> "fetch", i |-> crCo.i + 1]
    /\ UNCHANGED <<crArgs, crPc, crUrls, crRunOn, crTimedOut, crOut, crOther, crRest>>

\* crawl_async: the crawler is left
CoExit ==
    /\ crCo.pc = "exit"
    /\ \/ crCo' = [pc |-> "finished"]
       \/ \E exc \in CrawlerErrors : crCo' = [pc |-> "raised", exc |-> exc]
    /\ UNCHANGED <<crArgs, crPc, crUrls, crResults, crFetched, crRunOn, crTimedOut, crOut,
                   crGot, crOther, crRest>>

\* No loop was running: asyncio.run on the calling thread has ended
DirectEnds ==
    /\ crPc = "direct"
    /\ crCo.pc \in {"finished", "raised"}
    /\ crOut' = [called |-> TRUE,
                 out |-> IF crCo.pc = "finished" THEN crResults ELSE CrashResult(crCo.exc)]
    /\ crPc' = "done"
    /\ UNCHANGED <<crArgs, crUrls, crCo, crResults, crFetched, crRunOn, crTimedOut,
                   crGot, crOther, crRest>>

\* A loop was running: future.result returns, the worker's crawl is over
WaitReturns ==
    /\ crPc = "waiting"
    /\ crCo.pc = "finished"
    /\ crOut' = [called |-> TRUE, out |-> crResults]
    /\ crPc' = "done"
    /\ UNCHANGED <<crArgs, crUrls, crCo, crResults, crFetched, crRunOn, crTimedOut,
                   crGot, crOther, crRest>>

\* A loop was running: future.result raises what the worker's crawl raised.
\* A RuntimeError is taken by the handler meant for "no running loop",
\* which calls asyncio.run on the calling thread; that raises at once.
WaitRaises ==
    /\ crPc = "waiting"
    /\ crCo.pc = "raised"
    /\ IF crCo.exc.type = "RuntimeError"
       THEN /\ crRunOn' = crRunOn \cup {"caller"}
            /\ crOut' = [called |-> TRUE, out |-> CrashResult(LoopAlreadyRunning)]
       ELSE /\ crRunOn' = crRunOn
            /\ crOut' = [called |-> TRUE, out |-> CrashResult(crCo.exc)]
    /\ crPc' = "done"
    /\ UNCHANGED <<crArgs, crUrls, crCo, crResults, crFetched, crTimedOut, crGot, crOther, crRest>>

\* A loop was running: the worker's crawl is not over after WaitSeconds,
\* future.result raises TimeoutError, and the with block is left, which
\* shuts the executor down with wait=True.
WaitTimesOut ==
    /\ crPc = "waiting"
    /\ crCo.pc \notin {"finished", "raised"}
    /\ crTimedOut' = TRUE
    /\ crPc' = "shutdown"
    /\ UNCHANGED <<crArgs, crUrls, crCo, crResults, crFetched, crRunOn, crOut,
                   crGot, crOther, crRest>>

\* The executor's shutdown returns once the worker's crawl is over; the
\* TimeoutError then reaches the outer handler.
ShutdownReturns ==
    /\ crPc = "shutdown"
    /\ crCo.pc \in {"finished", "raised"}
    /\ crOut' = [called |-> TRUE,
                 out |-> CrashResult([type |-> "TimeoutError", msg |-> ""])]
    /\ crPc' = "done"
    /\ UNCHANGED <<crArgs, crUrls, crCo, crResults, crFetched, crRunOn, crTimedOut,
                   crGot, crOther, crRest>>

------------------------------------------------------------------------------
(* extract_structured_data *)

\* A text node: body names its characters other than the whitespace at its
\* two ends, len counts them, pad counts that whitespace.
Text(body, len, pad) == [body |-> body, len |-> len, pad |-> pad]

\* len(text)
TextLen(text) == text.len + text.pad

\* tag.get_text(strip=True)
GetTextStripped_Raw(text) == text
GetTextStripped(text) == [text EXCEPT !.pad = 0]

MinParagraphLength == 20

\* The paragraph filter: len(text) > 20
KeepsParagraph(text) == TextLen(text) > MinParagraphLength

\* The <p> elements a document may hold
ParagraphPool ==
    { Text("p19", 19, 0), Text("p20", 20, 0), Text("p21", 21, 0),
      Text("q19", 19, 2), Text("q21", 21, 3), Text("blank", 0, 1) }

\* Documents as BeautifulSoup parses them: the <title>, the headings, the
\* <p> elements, the tables and the lists, in document order, and what the
\* patterns and word lists find in the text of the whole document.
Documents ==
    { [title |-> title, headings |-> headings, paragraphs |-> paragraphs,
       tables |-> tables, lists |-> lists,
       dates |-> <<"15/01/2024">>, locations |-> <<"Kerala">>, event_names |-> <<"flood">>] :
        title \in { PyNone, Text("Flood Alert in Kerala", 21, 2) },
        headings \in { <<>>, <<[level |-> "h2", text |-> Text("Relief", 6, 0)],
                               [level |-> "h1", text |-> Text("Major Flood Warning", 19, 1)]>> },
        paragraphs \in SeqsUpTo(ParagraphPool, MaxParagraphs),
        tables \in { <<>>, <<[caption |-> Text("Flood Statistics", 16, 0),
                              headers |-> <<Text("District", 8, 0)>>,
                              rows |-> << <<Text("District", 8, 0)>>, <<>>,
                                          <<Text("Ernakulam", 9, 1)>> >>]>> },
        lists \in { <<>>, <<[type |-> "ul", items |-> <<Text("Ernakulam", 9, 0)>>],
                             [type |-> "ol", items |-> <<>>]>> } }

\* What is given as html_content: a document, or what BeautifulSoup does
\* not take as markup (None), on which it raises TypeError
NotMarkup == [markup |-> FALSE]

\* x.get_text(strip=True) for every x of a list
AllStripped(l) == [i \in 1..Len(l) |-> GetTextStripped(l[i])]

\* soup.find_all(level) for level in h1, h2, h3, h4: the headings by level,
\* those of a level in document order
HeadingLevels == <<"h1", "h2", "h3", "h4">>

RECURSIVE HeadingsByLevel(_, _)
HeadingsByLevel(headings, k) ==
    IF k > Len(HeadingLevels) THEN <<>>
    ELSE LET AtLevel(h) == h.level = HeadingLevels[k]
             found == SelectSeq(headings, AtLevel)
         IN  [i \in 1..Len(found) |-> [level |-> HeadingLevels[k],
                                       text |-> GetTextStripped(found[i].text)]]
             \o HeadingsByLevel(headings, k + 1)

\* The paragraphs kept: the stripped texts that pass the filter, in order
KeptParagraphs(paragraphs) == SelectSeq(AllStripped(paragraphs), KeepsParagraph)

\* The entry of one table: its rows are the <tr> that have cells
TableData(table_idx, table) ==
    LET HasCells(row) == row # <<>>
        rows == SelectSeq(table.rows, HasCells)
    IN  [table_id |-> table_idx,
         caption |-> IF table.caption # PyNone THEN GetTextStripped(table.caption) ELSE "",
         headers |-> AllStripped(table.headers),
         rows |-> [i \in 1..Len(rows) |-> AllStripped(rows[i])]]

\* The entries of the lists that have items
ListData(lists) ==
    LET HasItems(l) == l.items # <<>>
        found == SelectSeq(lists, HasItems)
    IN  [i \in 1..Len(found) |-> [type |-> found[i].type, items |-> AllStripped(found[i].items)]]

\* The results dict as it is created, before the document is parsed
EmptyExtraction(url, t) ==
    [status |-> "success", url |-> url, timestamp |-> t,
     structured_data |-> [title |-> "", headings |-> <<>>, paragraphs |-> <<>>,
                          tables |-> <<>>, lists |-> <<>>, metadata |-> EmptyDict],
     disaster_entities |-> [dates |-> <<>>, locations |-> <<>>, event_names |-> <<>>,
                            casualties |-> <<>>]]

\* The whole call
extract_structured_data(html_content, url, bs4_installed, t) ==
    IF ~bs4_installed
    THEN [status |-> "error", error_message |-> "beautifulsoup4 not installed"]
    ELSE IF html_content = NotMarkup
    THEN Put([EmptyExtraction(url, t) EXCEPT !.status = "error"], "error_message", "TypeError")
    ELSE [EmptyExtraction(url, t) EXCEPT
            !.structured_data =
                [title |-> IF html_content.title # PyNone
                           THEN GetTextStripped(html_content.title) ELSE "",
                 headings |-> HeadingsByLevel(html_content.headings, 1),
                 paragraphs |-> KeptParagraphs(html_content.paragraphs),
                 tables |-> [i \in 1..Len(html_content.tables) |->
                               TableData(i - 1, html_content.tables[i])],
                 lists |-> ListData(html_content.lists),
                 metadata |-> EmptyDict],
            !.disaster_entities =
                [dates |-> html_content.dates,
                 locations |-> html_content.locations,
                 event_names |-> html_content.event_names,
                 casualties |-> <<>>]]

ExInit ==
    /\ exArgs \in [html_content : Documents \cup {NotMarkup},
                   url : {"", "https://example.com/test"}, bs4_installed : BOOLEAN]
    /\ exOut = NotCalled

ExtractStructuredData ==
    /\ exArgs # NotCalled /\ exOut = NotCalled
    /\ exOut' = [called |-> TRUE,
                 out |-> extract_structured_data(exArgs.html_content, exArgs.url,
                                                 exArgs.bs4_installed, now)]
    /\ UNCHANGED <<exArgs, now, exRest>>

ExIdle == exArgs = NotCalled /\ exOut = NotCalled

------------------------------------------------------------------------------
(* mcp_apwrims_agent_with_code_execution/python_exec_tool.py: run_python_code. *)
(* The code of a call is a sequence of statements: x = v, print(x),            *)
(* print("text"), raise ValueError(...), raise SystemExit, and a line that     *)
(* does not compile.                                                           *)

Assign(name, value) == [op |-> "assign", name |-> name, value |-> value]
PrintName(name) == [op |-> "print_name", name |-> name]
PrintText(text) == [op |-> "print", text |-> text]
RaiseValueError == [op |-> "raise"]
RaiseSystemExit == [op |-> "exit"]
BadSyntax == [op |-> "bad_syntax"]

Statements ==
    { Assign("x", "1"), Assign("x", "2"), PrintName("x"), PrintText("hi"),
      RaiseValueError, RaiseSystemExit, BadSyntax }

Codes == SeqsUpTo(Statements, MaxStatements)

\* compile(): the code compiles when each of its lines does
Compiles(code) == \A i \in 1..Len(code) : code[i].op # "bad_syntax"

\* The exceptions, and whether `except Exception` catches them
IsException(exc) == exc \in {"ValueError", "NameError", "SyntaxError"}

\* One statement run in the namespace globals with stdout redirected to
\* the buffer: the namespace and the buffer after it, and what it raised
Step(st, stmt) ==
    CASE stmt.op = "assign" -> [st EXCEPT !.globals = Put(@, stmt.name, stmt.value),
                                         !.ran = @ + 1]
      [] stmt.op = "print_name" ->
            IF stmt.name \in DOMAIN st.globals
            THEN [st EXCEPT !.stdout = Append(@, st.globals[stmt.name]), !.ran = @ + 1]
            ELSE [st EXCEPT !.raised = "NameError"]
      [] stmt.op = "print" -> [st EXCEPT !.stdout = Append(@, stmt.text), !.ran = @ + 1]
      [] stmt.op = "raise" -> [st EXCEPT !.raised = "ValueError"]
      [] stmt.op = "exit" -> [st EXCEPT !.raised = "SystemExit"]

\* The statements run in order until one raises
RECURSIVE ExecFrom(_, _)
ExecFrom(stmts, st) ==
    IF stmts = <<>> \/ st.raised # "none" THEN st
    ELSE ExecFrom(Tail(stmts), Step(st, Head(stmts)))

\* exec(dedented, _EXEC_GLOBALS, _EXEC_GLOBALS) under redirect_stdout to a
\* new buffer: exec puts __builtins__ into the dict, compiles the code, and
\* runs it
Exec_FreshNamespace(code, globals) ==
    LET st0 == [globals |-> Put(EmptyDict, "__builtins__", "builtins"), stdout |-> <<>>,
                raised |-> "none", ran |-> 0]
    IN  IF ~Compiles(code) THEN [st0 EXCEPT !.raised = "SyntaxError"]
        ELSE ExecFrom(code, st0)
Exec_RolledBack(code, globals) ==
    LET st0 == [globals |-> Put(globals, "__builtins__", "builtins"), stdout |-> <<>>,
                raised |-> "none", ran |-> 0]
        st1 == IF ~Compiles(code) THEN [st0 EXCEPT !.raised = "SyntaxError"]
               ELSE ExecFrom(code, st0)
    IN  IF st1.raised = "none" THEN st1 ELSE [st1 EXCEPT !.globals = st0.globals]
Exec(code, globals) ==
    LET st0 == [globals |-> Put(globals, "__builtins__", "builtins"), stdout |-> <<>>,
                raised |-> "none", ran |-> 0]
    IN  IF ~Compiles(code) THEN [st0 EXCEPT !.raised = "SyntaxError"]
        ELSE ExecFrom(code, st0)

\* What the call gives back for a finished exec: the success dict, the
\* error dict with the traceback, or the exception itself when it is not
\* an Exception.  code is the dedented, stripped text: the statements.
RunResult(code, st) ==
    IF st.raised = "none"
    THEN Returned([status |-> "success", code |-> code, stdout |-> st.stdout])
    ELSE IF IsException(st.raised)
    THEN Returned([status |-> "error", code |-> code, stdout |-> st.stdout,
                   error |-> [traceback |-> st.raised]])
    ELSE Raised(st.raised)

PyIdle == EXEC_GLOBALS = EmptyDict /\ pyCalls = <<>>

\* The module is imported: _EXEC_GLOBALS = {}
PyInit == EXEC_GLOBALS = EmptyDict /\ pyCalls = <<>>

\* One call of run_python_code
RunPythonCode ==
    /\ Len(pyCalls) < MaxRuns
    /\ \E code \in Codes :
         LET st == Exec(code, EXEC_GLOBALS)
         IN  /\ EXEC_GLOBALS' = st.globals
             /\ pyCalls' = Append(pyCalls, [code |-> code, ran |-> st.ran,
                                            out |-> RunResult(code, st)])
    /\ UNCHANGED pyRest

------------------------------------------------------------------------------
(* mcp_apwrims_agent_with_code_execution/agent.py: the description of the   *)
(* MCP tools, fetched from the server when the agent is created.  A text is *)
(* the sequence of its lines.                                               *)

ToolCategories ==
    <<"rainfall", "reservoir", "groundwater", "soil", "tanks", "irrigation", "river",
      "conservation", "location">>

CategoryChars(category) ==
    CASE category = "rainfall" -> <<"r", "a", "i", "n", "f", "a", "l", "l">>
      [] category = "reservoir" -> <<"r", "e", "s", "e", "r", "v", "o", "i", "r">>
      [] category = "groundwater" -> <<"g", "r", "o", "u", "n", "d", "w", "a", "t", "e", "r">>
      [] category = "soil" -> <<"s", "o", "i", "l">>
      [] category = "tanks" -> <<"t", "a", "n", "k", "s">>
      [] category = "irrigation" -> <<"i", "r", "r", "i", "g", "a", "t", "i", "o", "n">>
      [] category = "river" -> <<"r", "i", "v", "e", "r">>
      [] category = "conservation" -> <<"c", "o", "n", "s", "e", "r", "v", "a", "t", "i", "o", "n">>
      [] category = "location" -> <<"l", "o", "c", "a", "t", "i", "o", "n">>

\* What a category adds to the summary line
CategoryPart(category) ==
    CASE category = "rainfall" -> "rainfall data"
      [] category = "reservoir" -> "reservoir storage/levels/metadata"
      [] category = "groundwater" -> "groundwater levels"
      [] category = "soil" -> "soil moisture"
      [] category = "tanks" -> "MI tanks data"
      [] category = "irrigation" -> "lift irrigation schemes"
      [] category = "river" -> "river gauge readings"
      [] category = "conservation" -> "water conservation structures"
      [] category = "location" -> "location metadata"

\* Tools the server may list: Rainfall_Daily, reservoir_soil, ping, and an
\* object with no name
ToolPool ==
    { [name |-> <<"R", "a", "i", "n", "f", "a", "l", "l", "_", "D", "a", "i", "l", "y">>,
       description |-> "Daily rainfall", arguments |-> <<"district">>],
      [name |-> <<"r", "e", "s", "e", "r", "v", "o", "i", "r", "_", "s", "o", "i", "l">>,
       description |-> "Reservoir and soil"],
      [name |-> <<"p", "i", "n", "g">>, description |-> "Ping"],
      [description |-> "nameless"] }

\* What mcp_toolset.get_tools() gives: a list of tools, or an exception
GetToolsOutcomes ==
    { [raised |-> TRUE, exc |-> "ConnectionError"] }
    \cup { [raised |-> FALSE, value |-> l] : l \in SeqsUpTo(ToolPool, MaxTools) }

ShortDescription == <<"Fetches AP WRIMS water resource data.">>
DescriptionHeader == "Fetches AP WRIMS water resource data using available MCP tools."
FallbackDescription == <<"Fetches AP WRIMS water resource data using available MCP tools.">>

\* The tools that have a name and a description
Described(tools) ==
    SelectSeq(tools, LAMBDA tool : "name" \in DOMAIN tool /\ "description" \in DOMAIN tool)

\* The category a tool is filed under: the first one its lower-cased name
\* contains, if any
FiledUnder(tool) ==
    LET hits == { c \in 1..Len(ToolCategories) :
                    Contains(CategoryChars(ToolCategories[c]), StrLower(tool.name)) }
    IN  IF hits = {} THEN {}
        ELSE {ToolCategories[CHOOSE c \in hits : \A d \in hits : c <= d]}

\* "- <name>: <description><args>"
ToolLine(tool) ==
    [name |-> tool.name, summary |-> tool.description,
     args |-> Get(tool, "arguments", <<>>)]

\* get_mcp_tools_description: the value the coroutine returns
get_mcp_tools_description(fetched) ==
    IF fetched.raised \/ fetched.value = <<>> THEN ShortDescription
    ELSE LET tools == Described(fetched.value)
             filled == UNION { FiledUnder(tools[i]) : i \in 1..Len(tools) }
             parts == SelectSeq([c \in 1..Len(ToolCategories) |-> ToolCategories[c]],
                                LAMBDA category : category \in filled)
             tool_lines == [i \in 1..Len(tools) |-> ToolLine(tools[i])]
         IN  <<DescriptionHeader>>
             \o (IF parts # <<>>
                 THEN <<[summary |-> [i \in 1..Len(parts) |-> CategoryPart(parts[i])]]>>
                 ELSE <<>>)
             \o (IF tool_lines # <<>> THEN <<[tools |-> tool_lines]>> ELSE <<>>)

\* asyncio.run(coroutine) on a thread: RuntimeError when the thread runs an
\* event loop, else the value the coroutine returns
AsyncioRun(thread_runs_loop, value) ==
    IF thread_runs_loop
    THEN Raised("RuntimeError: asyncio.run() cannot be called from a running event loop")
    ELSE Returned(value)

\* asyncio.get_running_loop() raises RuntimeError: no loop runs on the thread
NoRunningLoop_Assumed(loop_running) == TRUE
NoRunningLoop(loop_running) == ~loop_running

McIdle ==
    /\ mcArgs = NotCalled /\ mcPc = "idle" /\ mcThread = "none" /\ mcResult = EmptyDict
    /\ mcRunOn = {} /\ mcOut = NotCalled

McInit ==
    /\ mcArgs \in [loop_running : BOOLEAN, get_tools : GetToolsOutcomes]
    /\ mcPc = "start" /\ mcThread = "none" /\ mcResult = EmptyDict
    /\ mcRunOn = {} /\ mcOut = NotCalled

\* No loop runs on the calling thread: asyncio.run there, and its value is
\* returned
DescribeOnCaller ==
    /\ mcPc = "start" /\ NoRunningLoop(mcArgs.loop_running)
    /\ mcRunOn' = mcRunOn \cup {[thread |-> "caller", runs_loop |-> mcArgs.loop_running]}
    /\ mcOut' = [called |-> TRUE,
                 out |-> AsyncioRun(mcArgs.loop_running,
                                    get_mcp_tools_description(mcArgs.get_tools))]
    /\ mcPc' = "done"
    /\ UNCHANGED <<mcArgs, mcThread, mcResult, mcRest>>

\* A loop runs on the calling thread: the runner thread is started and the
\* caller goes to t.join()
StartRunner ==
    /\ mcPc = "start" /\ ~NoRunningLoop(mcArgs.loop_running)
    /\ mcThread' = "started"
    /\ mcPc' = "joining"
    /\ UNCHANGED <<mcArgs, mcResult, mcRunOn, mcOut, mcRest>>

\* runner(), on its own thread, which runs no loop
Runner ==
    /\ mcThread = "started"
    /\ mcRunOn' = mcRunOn \cup {[thread |-> "runner", runs_loop |-> FALSE]}
    /\ LET ran == AsyncioRun(FALSE, get_mcp_tools_description(mcArgs.get_tools))
       IN  IF ran.raised
           THEN /\ mcResult' = Put(mcResult, "value", FallbackDescription)
                /\ mcThread' = "raised"
           ELSE /\ mcResult' = Put(mcResult, "value", ran.value)
                /\ mcThread' = "finished"
    /\ UNCHANGED <<mcArgs, mcPc, mcOut, mcRest>>

\* t.join() returns once the runner thread is over
JoinReturns ==
    /\ mcPc = "joining" /\ mcThread \in {"finished", "raised"}
    /\ mcOut' = [called |-> TRUE,
                 out |-> Returned(Get(mcResult, "value", FallbackDescription))]
    /\ mcPc' = "done"
    /\ UNCHANGED <<mcArgs, mcThread, mcResult, mcRunOn, mcRest>>

------------------------------------------------------------------------------
(* langgraph/2_multi_tool_agent/agent.py: the graph of the agent node and   *)
(* the tools node.                                                          *)

START == "__start__"
END == "__end__"

CityLower(city) == IF city = "New York" THEN "new york" ELSE city

get_weather(city) ==
    IF CityLower(city) = "new york"
    THEN [status |-> "success", report |-> "The weather in New York is sunny"]
    ELSE [status |-> "error", error_message |-> <<"Weather information not available", city>>]

\* The report carries the time the clock shows
get_current_time(city, t) ==
    IF CityLower(city) = "new york"
    THEN [status |-> "success", report |-> <<"The current time in ", city, " is ", t>>]
    ELSE [status |-> "error", error_message |-> <<"No timezone information", city>>]

HumanMessage(content) == [type |-> "human", content |-> content]
ToolCall(name, city) == [name |-> name, args |-> [city |-> city]]
AIMessage(content, tool_calls) == [type |-> "ai", content |-> content, tool_calls |-> tool_calls]
ToolMessage(call, content) == [type |-> "tool", name |-> call.name, content |-> content]

\* What the model may ask for, and what it may answer
ToolCalls ==
    { ToolCall("get_weather", "New York"), ToolCall("get_weather", "paris"),
      ToolCall("get_current_time", "New York") }

Responses ==
    { AIMessage("answer", <<>>) }
    \cup { AIMessage("", calls) : calls \in SeqsUpTo(ToolCalls, MaxToolCalls) \ {<<>>} }

\* call_model: the response of the model is added to the messages
call_model(state, response) == [messages |-> Append(state.messages, response)]

\* ToolNode(tools): one tool message per tool call of the last message
ToolNode(state, t) ==
    LET calls == Get(state.messages[Len(state.messages)], "tool_calls", <<>>)
    IN  [messages |->
            state.messages \o
            [i \in 1..Len(calls) |->
                ToolMessage(calls[i],
                            IF calls[i].name = "get_weather" THEN get_weather(calls[i].args.city)
                            ELSE get_current_time(calls[i].args.city, t))]]

should_continue_Tools(state) == "tools"
should_continue(state) ==
    LET last_message == state.messages[Len(state.messages)]
    IN  IF "tool_calls" \in DOMAIN last_message /\ last_message.tool_calls # <<>>
        THEN "tools" ELSE "end"

\* add_edge, and the mapping of add_conditional_edges
Edges == { <<START, "agent">>, <<"tools", "agent">> }
ConditionalEdges == [tools |-> "tools", end |-> END]

\* Where the run goes after a node, with the state that node left
NextNode(node, state) ==
    IF node = "agent" THEN ConditionalEdges[should_continue(state)]
    ELSE CHOOSE target \in {"agent", "tools", END} : <<node, target>> \in Edges

LgIdle == lgNode = "idle" /\ lgMessages = <<>> /\ lgTrace = <<>>

\* agent.invoke({"messages": [HumanMessage(...)]})
LgInit ==
    /\ lgNode = START
    /\ lgMessages \in { <<HumanMessage(q)>> : q \in {"weather in New York?", "time in Paris?"} }
    /\ lgTrace = <<>>

AgentSteps == Cardinality({ i \in 1..Len(lgTrace) : lgTrace[i].node = "agent" })

\* The run leaves START
EnterGraph ==
    /\ lgNode = START
    /\ lgNode' = NextNode(START, [messages |-> lgMessages])
    /\ UNCHANGED <<lgMessages, lgTrace, lgRest>>

\* The agent node runs, and the run is routed by should_continue
AgentNode ==
    /\ lgNode = "agent" /\ AgentSteps < MaxAgentSteps
    /\ \E response \in Responses :
         LET state == call_model([messages |-> lgMessages], response)
         IN  /\ lgMessages' = state.messages
             /\ lgTrace' = Append(lgTrace, [node |-> "agent",
                                            last |-> state.messages[Len(state.messages)]])
             /\ lgNode' = NextNode("agent", state)
    /\ UNCHANGED lgRest

\* The tools node runs, and the run goes back to the agent node
ToolsNode ==
    /\ lgNode = "tools"
    /\ LET state == ToolNode([messages |-> lgMessages], now)
       IN  /\ lgMessages' = state.messages
           /\ lgTrace' = Append(lgTrace, [node |-> "tools",
                                          last |-> state.messages[Len(state.messages)]])
           /\ lgNode' = NextNode("tools", state)
    /\ UNCHANGED lgRest

------------------------------------------------------------------------------
(* Specifications: one stage of the pipeline is called, the others rest *)

ToolsIdle == FmIdle /\ PyIdle /\ McIdle /\ LgIdle

PkInitial == now = 0 /\ PkInit /\ SrIdle /\ CrIdle /\ ExIdle /\ ToolsIdle
PkNext == GenerateKafkaPackets
SpecPackets == PkInitial /\ [][PkNext]_vars

PkInitialRepeat == now = 0 /\ PkInitRepeat /\ SrIdle /\ CrIdle /\ ExIdle /\ ToolsIdle
PkNextRepeat == GenerateKafkaPackets \/ GenerateKafkaPacketsAgain
SpecPacketsRepeat == PkInitialRepeat /\ [][PkNextRepeat]_vars

SrInitial == now = 0 /\ SrInit /\ PkIdle /\ CrIdle /\ ExIdle /\ ToolsIdle
SrNext == SearchStart \/ QueryAnswered \/ QueryFailed
SpecSearch == SrInitial /\ [][SrNext]_vars

ExInitial == now = 0 /\ ExInit /\ PkIdle /\ SrIdle /\ CrIdle /\ ToolsIdle
ExNext == ExtractStructuredData
SpecExtract == ExInitial /\ [][ExNext]_vars

SrInitialTraced == now = 0 /\ SrInitTraced /\ PkIdle /\ CrIdle /\ ExIdle /\ ToolsIdle
SpecSearchTraced == SrInitialTraced /\ [][SrNext]_vars

FmInitial == now = 0 /\ PkInitFormatted /\ SrIdle /\ CrIdle /\ ExIdle /\ ToolsIdle
FmNext == GenerateKafkaPackets \/ FormatKafkaPacketsForOutput
SpecFormat == FmInitial /\ [][FmNext]_vars

PyInitial == now = 0 /\ PyInit /\ PkIdle /\ SrIdle /\ CrIdle /\ ExIdle /\ FmIdle /\ McIdle /\ LgIdle
PyNext == RunPythonCode
SpecPython == PyInitial /\ [][PyNext]_vars

McInitial == now = 0 /\ McInit /\ PkIdle /\ SrIdle /\ CrIdle /\ ExIdle /\ FmIdle /\ PyIdle /\ LgIdle
McNext == DescribeOnCaller \/ StartRunner \/ Runner \/ JoinReturns
SpecDescription == McInitial /\ [][McNext]_vars

LgInitial ==
    now = 0 /\ LgInit /\ PkIdle /\ SrIdle /\ CrIdle /\ ExIdle /\ FmIdle /\ PyIdle /\ McIdle
LgNext == EnterGraph \/ AgentNode \/ ToolsNode
SpecGraph == LgInitial /\ [][LgNext]_vars

SrInitialMock == now \in 0..MaxClock /\ SrInitMock /\ PkIdle /\ CrIdle /\ ExIdle /\ ToolsIdle
SrNextMock == SearchStart
SpecSearchMock == SrInitialMock /\ [][SrNextMock]_vars

CrInitial == now = 0 /\ CrInit /\ PkIdle /\ SrIdle /\ ExIdle /\ ToolsIdle
CrNext ==
    \/ CrawlStart \/ CoEnter \/ CoFetch \/ CoExit
    \/ DirectEnds \/ WaitReturns \/ WaitRaises \/ WaitTimesOut \/ ShutdownReturns
SpecCrawl == CrInitial /\ [][CrNext]_vars

\* One stage is called: the search or the crawl
StInitial == SrInitial \/ CrInitial
StNext == SrNext \/ CrNext
SpecStages == StInitial /\ [][StNext]_vars

CrInitialPair == now = 0 /\ CrInitPair /\ PkIdle /\ SrIdle /\ ExIdle /\ ToolsIdle
CrNextPair == CrNext \/ Switch
SpecCrawlPair == CrInitialPair /\ [][CrNextPair]_vars

------------------------------------------------------------------------------
(* Properties of the packet builder *)

pkReturned == pkOut.called /\ ~pkOut.out.raised

\* The str argument is left out, or is the JSON text of an object
AbsentOrObject(text) ==
    \/ ~StrTruthy(text)
    \/ (text.k = "json" /\ text.v.t = "object")

\* The entries the packets are built from, for a search argument as above
pkEntries == Get(LoadOrEmpty(pkArgs.search_results).value.d, "discovered_urls", <<>>)
pkCrawled ==
    LET c == LoadOrEmpty(pkArgs.crawl_results).value
    IN  IF c.t = "object" THEN Get(c.d, "crawled_data", <<>>) ELSE <<>>

pkWellFormedCall ==
    /\ pkOut.called
    /\ AbsentOrObject(pkArgs.search_results)
    /\ AbsentOrObject(pkArgs.crawl_results)
    /\ AbsentOrObject(pkArgs.extraction_results)

\* C1: given search results that decode to an object with N discovered
\* entries, and crawl and extraction results each absent or an object, the
\* builder returns packet_count = N and N packets, the i-th packet carrying
\* the url, title and domain of the i-th entry.
C1_OnePacketPerUrl ==
    pkWellFormedCall =>
        /\ pkReturned
        /\ pkOut.out.value.packet_count = Len(pkEntries)
        /\ Len(pkOut.out.value.packets) = Len(pkEntries)
        /\ \A i \in 1..Len(pkEntries) :
             LET source == pkOut.out.value.packets[i].data.source
             IN  /\ source.url = Get(pkEntries[i], "url", "")
                 /\ source.title = Get(pkEntries[i], "title", "")
                 /\ source.domain = Get(pkEntries[i], "domain", "")

C1_Witness ==
    /\ pkWellFormedCall
    /\ StrTruthy(pkArgs.crawl_results)
    /\ Len(pkEntries) = 2
    /\ pkEntries[1] # pkEntries[2]
    /\ pkOut.out.value.packet_count = 2
    /\ pkOut.out.value.packets[2].data.source.title = "B"

\* C2: a packet's priority is "high" exactly when the relevance_score of
\* the entry it was built from exceeds 3, a missing score counting as 0,
\* and "normal" otherwise.
C2_PriorityThreshold ==
    pkReturned =>
        \A i \in 1..Len(pkOut.out.value.packets) :
            LET priority == pkOut.out.value.packets[i].processing_instructions.priority
                score == IF "relevance_score" \in DOMAIN pkEntries[i]
                         THEN pkEntries[i].relevance_score ELSE 0
            IN  /\ priority \in {"high", "normal"}
                /\ priority = "high" <=> score > 3

C2_Witness ==
    /\ pkReturned
    /\ Len(pkEntries) = 2
    /\ Get(pkEntries[1], "relevance_score", 0) = 3
    /\ Get(pkEntries[2], "relevance_score", 0) = 4
    /\ pkOut.out.value.packets[1].processing_instructions.priority = "normal"
    /\ pkOut.out.value.packets[2].processing_instructions.priority = "high"

C2_WitnessMissingScore ==
    /\ pkReturned
    /\ Len(pkEntries) = 1
    /\ "relevance_score" \notin DOMAIN pkEntries[1]
    /\ pkOut.out.value.packets[1].processing_instructions.priority = "normal"

\* A packet carries the crawl enrichment
Enriched(packet) == "crawled_html_size" \in DOMAIN packet.data.content

\* Some crawl record has a URL string equal to the packet's source URL
HasCrawlRecordFor(packet) ==
    \E j \in 1..Len(pkCrawled) :
        /\ "url" \in DOMAIN pkCrawled[j]
        /\ pkCrawled[j].url = packet.data.source.url

\* C3: crawl enrichment is applied to a packet exactly when some record of
\* crawled_data has a URL string equal to the packet's source URL; a packet
\* with no such record keeps crawl_status = "pending".
C3_EnrichedIffUrlEqual ==
    pkReturned =>
        \A i \in 1..Len(pkOut.out.value.packets) :
            LET packet == pkOut.out.value.packets[i]
            IN  /\ Enriched(packet) <=> HasCrawlRecordFor(packet)
                /\ ~HasCrawlRecordFor(packet) => packet.data.content.crawl_status = "pending"

\* C3 restricted to entries and records that all carry a "url" key
C3_EnrichedIffUrlEqual_UrlKeysPresent ==
    (/\ pkReturned
     /\ \A i \in 1..Len(pkEntries) : "url" \in DOMAIN pkEntries[i]
     /\ \A j \in 1..Len(pkCrawled) : "url" \in DOMAIN pkCrawled[j]) =>
        \A i \in 1..Len(pkOut.out.value.packets) :
            LET packet == pkOut.out.value.packets[i]
            IN  /\ Enriched(packet) <=> HasCrawlRecordFor(packet)
                /\ ~HasCrawlRecordFor(packet) => packet.data.content.crawl_status = "pending"

\* C5: no public operation lets an exception reach its caller; each returns
\* a result that carries a status field.  Here: generate_kafka_packets.
C5_NoExceptionEscapes ==
    pkOut.called => (~pkOut.out.raised /\ "status" \in DOMAIN pkOut.out.value)

\* Some argument of the call is a non-empty string that is not JSON
pkMalformedArg ==
    \E a \in {pkArgs.search_results, pkArgs.crawl_results, pkArgs.extraction_results} :
        a.k = "malformed"

\* C6: a search_results, crawl_results or extraction_results string that is
\* not valid JSON makes the builder report a result with status = "error"
\* that holds no packet.
C6_MalformedJsonReported ==
    (pkOut.called /\ pkMalformedArg) =>
        /\ ~pkOut.out.raised
        /\ pkOut.out.value.status = "error"
        /\ Get(pkOut.out.value, "packets", <<>>) = <<>>

\* The extraction result given, decoded; an empty dict when none is given
pkExtraction == LoadOrEmpty(pkArgs.extraction_results).value

\* C16: given a non-empty extraction result, every packet, whatever its
\* url, carries that result's status, structured_data and disaster_entities
\* as its extraction_status, structured_content and disaster_entities; given
\* none, every packet keeps extraction_status "pending" and has no
\* structured_content.
C16_ExtractionOnEveryPacket ==
    pkReturned =>
        \A i \in 1..Len(pkOut.out.value.packets) :
            LET data == pkOut.out.value.packets[i].data
            IN  IF pkExtraction.t = "object" /\ pkExtraction.d # EmptyDict
                THEN /\ data.content.extraction_status = Get(pkExtraction.d, "status", "")
                     /\ "structured_content" \in DOMAIN data
                     /\ data.structured_content = Get(pkExtraction.d, "structured_data", EmptyDict)
                     /\ "disaster_entities" \in DOMAIN data
                     /\ data.disaster_entities = Get(pkExtraction.d, "disaster_entities", EmptyDict)
                ELSE /\ data.content.extraction_status = "pending"
                     /\ "structured_content" \notin DOMAIN data

\* Two packets of different urls, neither of them crawled, and the result
\* of the extraction of one page
C16_Witness ==
    /\ pkReturned
    /\ ~StrTruthy(pkArgs.crawl_results)
    /\ Len(pkOut.out.value.packets) = 2
    /\ pkOut.out.value.packets[1].data.source.url = "https://a.in/x"
    /\ pkOut.out.value.packets[2].data.source.url = "https://b.in/y"
    /\ \A i \in 1..2 :
         /\ pkOut.out.value.packets[i].data.content.extraction_status = "success"
         /\ pkOut.out.value.packets[i].data.structured_content.title = "T"

\* C17: two calls of the builder that read the same clock second for the
\* packet at an index give that packet the same packet_id, even when the
\* contents of the two packets differ.
C17_SameSecondSameId ==
    (pkPrev # NotCalled /\ pkReturned /\ ~pkPrev.out.raised) =>
        \A i \in 1..Len(pkOut.out.value.packets) :
            (/\ i <= Len(pkPrev.out.value.packets)
             /\ pkPrev.out.value.packets[i].timestamp = pkOut.out.value.packets[i].timestamp)
                => pkPrev.out.value.packets[i].packet_id = pkOut.out.value.packets[i].packet_id

\* Two calls within second 0, the second packets of which differ in their
\* data and share their id
C17_Witness ==
    /\ pkPrev # NotCalled /\ pkReturned /\ ~pkPrev.out.raised
    /\ now = 0
    /\ Len(pkPrev.out.value.packets) = 2 /\ Len(pkOut.out.value.packets) = 2
    /\ pkPrev.out.value.packets[2].data # pkOut.out.value.packets[2].data
    /\ pkPrev.out.value.packets[2].packet_id = pkOut.out.value.packets[2].packet_id

------------------------------------------------------------------------------
(* Properties of the search *)

srReturned == srPc = "done" /\ srOut.called

EnumeratedTypes == {"floods", "droughts", "cyclones", "earthquakes", "landslides", "all"}

\* The result is an error whose message names the category of the call
srRejected ==
    /\ srOut.out.status = "error"
    /\ "names" \in DOMAIN srOut.out.error_message
    /\ srOut.out.error_message.names = srArgs.disaster_type

\* C4, as claimed: any call whose disaster_type is neither an enumerated
\* category nor "all" returns status = "error" with a message naming the
\* invalid category.
C4_UnknownCategoryRejected ==
    (srReturned /\ srArgs.disaster_type \notin EnumeratedTypes) => srRejected

\* C4, amended: a call that does not ask for mock data, with the ddgs
\* library importable, whose disaster_type is neither an enumerated category
\* nor "all", returns status = "error" with a message naming the invalid
\* category, and issues no query.
C4_UnknownCategoryRejected_Live ==
    (/\ srPc # "start"
     /\ srArgs.disaster_type \notin EnumeratedTypes
     /\ ~srArgs.use_mock
     /\ srArgs.ddgs_installed) =>
        srReturned /\ srRejected /\ srIdx = 0

C4_Witness ==
    /\ srReturned
    /\ srArgs.disaster_type = "volcano"
    /\ ~srArgs.use_mock /\ srArgs.ddgs_installed /\ ~srArgs.ddgs_starts
    /\ srRejected

\* C10: in every status = "success" result of the search, mock or live,
\* discovered_urls is in non-increasing order of relevance_score.
C10_SortedByRelevance ==
    (srReturned /\ srOut.out.status = "success") =>
        LET urls == srOut.out.discovered_urls
        IN  \A i, j \in 1..Len(urls) :
                i < j => urls[i].relevance_score >= urls[j].relevance_score

\* A live search that found a lower score before a higher one
C10_Witness ==
    /\ srReturned /\ srOut.out.status = "success"
    /\ ~srArgs.use_mock
    /\ srArgs.disaster_type = "all"
    /\ Len(srFound) = 2
    /\ srFound[1].relevance_score < srFound[2].relevance_score
    /\ srOut.out.discovered_urls = <<srFound[2], srFound[1]>>

\* The keywords found, whatever the case, in a title or a snippet
KeywordsFound(title, snippet) ==
    { k \in 1..Len(Keywords) :
        \/ Contains(StrLower(Keywords[k]), StrLower(title))
        \/ Contains(StrLower(Keywords[k]), StrLower(snippet)) }

\* C11: the relevance_score of every entry the search returns is the number
\* of the six keywords that occur, whatever the case, in the entry's title
\* or snippet, hence an integer from 0 to 6.
C11_ScoreCountsKeywords ==
    (srReturned /\ srOut.out.status = "success") =>
        \A i \in 1..Len(srOut.out.discovered_urls) :
            LET entry == srOut.out.discovered_urls[i]
            IN  /\ entry.relevance_score = Cardinality(KeywordsFound(entry.title, entry.snippet))
                /\ entry.relevance_score \in 0..6

\* C11 on the entries of a live search only, the score counted on the
\* snippet the entry carries
C11_ScoreCountsKeywords_Live ==
    (srReturned /\ srOut.out.status = "success" /\ ~srArgs.use_mock) =>
        \A i \in 1..Len(srOut.out.discovered_urls) :
            LET entry == srOut.out.discovered_urls[i]
            IN  entry.relevance_score = Cardinality(KeywordsFound(entry.title, entry.snippet))

\* C11 on the entries of a live search only, as to the range of the score
C11_ScoreInRange_Live ==
    (srReturned /\ srOut.out.status = "success" /\ ~srArgs.use_mock) =>
        \A i \in 1..Len(srOut.out.discovered_urls) :
            srOut.out.discovered_urls[i].relevance_score \in 0..6

\* The entries of l that carry the score sc, in the order of l
WithScore(l, sc) ==
    LET Has(entry) == entry.relevance_score = sc
    IN  SelectSeq(l, Has)

srInLoop ==
    /\ srArgs # NotCalled
    /\ ~srArgs.use_mock /\ srArgs.ddgs_installed /\ srArgs.ddgs_starts
    /\ srArgs.disaster_type \in EnumeratedTypes \cup {"all"}

\* The entries the traced queries appended: those of every query, or only
\* those of the queries that did not fail
RECURSIVE EntriesOf(_, _)
EntriesOf(log, withFailed) ==
    IF log = <<>> THEN <<>>
    ELSE (IF withFailed \/ ~Head(log).failed THEN Head(log).entries ELSE <<>>)
         \o EntriesOf(Tail(log), withFailed)

\* l and m hold the same entries, each as many times
SameEntries(l, m) ==
    /\ Len(l) = Len(m)
    /\ \A i \in 1..Len(l) :
         Cardinality({ j \in 1..Len(l) : l[j] = l[i] })
             = Cardinality({ j \in 1..Len(m) : m[j] = l[i] })

\* C13: once the provider is started and the category valid, the search
\* returns status = "success" however many queries fail: every query is
\* issued, discovered_urls holds exactly the results of the queries that
\* did not fail, and total_count is its length.
C13_FailedQueriesSkipped ==
    (srReturned /\ srInLoop /\ srLog.traced) =>
        /\ srOut.out.status = "success"
        /\ Len(srLog.queries) = Len(SEED_QUERIES[srArgs.disaster_type])
        /\ SameEntries(srOut.out.discovered_urls, EntriesOf(srLog.queries, FALSE))
        /\ srOut.out.total_count = Len(srOut.out.discovered_urls)

\* C13 but for the entries a failing query appended before it failed,
\* which stay in discovered_urls
C13_FailedQueriesSkipped_EntriesStay ==
    (srReturned /\ srInLoop /\ srLog.traced) =>
        /\ srOut.out.status = "success"
        /\ Len(srLog.queries) = Len(SEED_QUERIES[srArgs.disaster_type])
        /\ SameEntries(srOut.out.discovered_urls, EntriesOf(srLog.queries, TRUE))
        /\ srOut.out.total_count = Len(srOut.out.discovered_urls)

\* Every query failed, and the search returned
C13_EveryQueryFailed ==
    /\ srReturned /\ srInLoop /\ srLog.traced
    /\ Len(srLog.queries) = 4
    /\ \A i \in 1..4 : srLog.queries[i].failed
    /\ srOut.out.status = "success"

------------------------------------------------------------------------------
(* Properties of the crawl *)

crReturned == crPc = "done" /\ crOut.called

\* The call ended with asyncio.run refusing to start under a running loop
crFailedUnderRunningLoop ==
    /\ crReturned
    /\ crOut.out.status = "error"
    /\ "cause" \in DOMAIN crOut.out.error_message
    /\ crOut.out.error_message.cause = LoopAlreadyRunning

\* C7: called under a running loop, the crawl runs only in the worker
\* thread: asyncio.run is never called on the calling thread and the call
\* never fails with "cannot be called from a running event loop", whatever
\* the worker's crawl does; called with no loop running, the crawl runs on
\* the calling thread; and the call can always go on until it returns.
C7_CrawlOffTheCallersLoop ==
    /\ (crPc # "idle" /\ crArgs.loop_running) =>
            ("caller" \notin crRunOn /\ ~crFailedUnderRunningLoop)
    /\ (crPc # "idle" /\ ~crArgs.loop_running) => "worker" \notin crRunOn
    /\ crPc \notin {"idle", "done"} => ENABLED CrNext

\* C8: when the wait for the worker has expired, the call has returned a
\* status = "error" result: it does not wait for the worker's crawl.
C8_TimeoutAbandonsCrawl ==
    crTimedOut => (crReturned /\ crOut.out.status = "error")

\* The urls asked for, as the argument gives them
crRequested == ParseUrls(crArgs.urls).items

IsPrefixOf(s, t) == Len(s) <= Len(t) /\ s = SubSeq(t, 1, Len(s))

\* C9: within one call the urls are fetched one after another in list
\* order, none twice, a failed or raising fetch does not stop the ones
\* after it, and a status = "success" result holds exactly one record per
\* requested url, in request order, each with status success or error.
C9_OneRecordPerUrl ==
    crPc # "idle" =>
        /\ IsPrefixOf(crFetched, crRequested)
        /\ (crReturned /\ crOut.out.status = "success") =>
              /\ crFetched = crRequested
              /\ Len(crOut.out.crawled_data) = Len(crRequested)
              /\ \A i \in 1..Len(crRequested) :
                   /\ crOut.out.crawled_data[i].url = crRequested[i]
                   /\ crOut.out.crawled_data[i].status \in {"success", "error"}

\* Under a running loop, a first fetch that raised and a second that
\* succeeded, both recorded in the result
C9_Witness ==
    /\ crReturned /\ crOut.out.status = "success"
    /\ crArgs.loop_running
    /\ Len(crRequested) = 2
    /\ crOut.out.crawled_data[1].status = "error"
    /\ crOut.out.crawled_data[1].error_message = "fetch broke"
    /\ crOut.out.crawled_data[2].status = "success"
    /\ crOut.out.success_count = 1 /\ crOut.out.error_count = 1

\* The calls under way: the one that takes the next step, and the other
crCalls == IF crOther = NotCalled THEN {CrLocals} ELSE {CrLocals, crOther}

\* The records of a results dict whose status is st
WithStatus(crawled_data, st) == { i \in 1..Len(crawled_data) : crawled_data[i].status = st }

RECURSIVE SizeOfSuccesses(_)
SizeOfSuccesses(crawled_data) ==
    IF crawled_data = <<>> THEN 0
    ELSE (IF Head(crawled_data).status = "success"
          THEN Head(crawled_data).content_size_bytes ELSE 0)
         + SizeOfSuccesses(Tail(crawled_data))

\* C18: two calls that run at the same time share no state: whatever the
\* interleaving, the results of each call hold records only for the urls
\* given to that call, one per url fetched so far, and its counters count
\* only those records.
C18_CallsShareNothing ==
    \A call \in crCalls :
        call.results # NotCalled =>
            LET requested == ParseUrls(call.args.urls).items
                records == call.results.crawled_data
            IN  /\ Len(records) = Len(call.fetched)
                /\ Len(records) <= Len(requested)
                /\ \A i \in 1..Len(records) : records[i].url = requested[i]
                /\ call.results.success_count = Cardinality(WithStatus(records, "success"))
                /\ call.results.error_count = Cardinality(WithStatus(records, "error"))
                /\ call.results.total_size_bytes = SizeOfSuccesses(records)
                /\ (call.pc = "done" /\ call.out.out.status = "success")
                       => call.out.out = call.results /\ Len(records) = Len(requested)

\* One call has returned the record of its one url while the other call,
\* of two urls, has fetched the first and not yet the second
C18_Witness ==
    /\ crOther # NotCalled
    /\ \E call \in crCalls :
         /\ call.pc = "done" /\ call.out.out.status = "success"
         /\ Len(call.out.out.crawled_data) = 1
         /\ call.out.out.crawled_data[1].url = "https://b.in/y"
         /\ call.out.out.success_count = 1
    /\ \E call \in crCalls :
         /\ call.pc = "waiting" /\ call.co = [pc |-> "fetch", i |-> 2]
         /\ call.results.crawled_data[1].url = "https://a.in/x"
         /\ call.results.error_count = 1

\* The crawl did not run to its end: crawl4ai is missing, crawl_async
\* raised, or the wait for the worker timed out
crBroken ==
    \/ ~crArgs.crawl4ai_installed
    \/ crCo.pc = "raised"
    \/ crTimedOut

\* The search provider is missing or does not start
srBroken ==
    /\ ~srArgs.use_mock
    /\ \/ ~srArgs.ddgs_installed
       \/ srArgs.disaster_type \in EnumeratedTypes \cup {"all"} /\ ~srArgs.ddgs_starts

\* C19: a stage that fails as a whole gives no partial output: a crawl that
\* did not run to its end returns status = "error" and an error_message and
\* nothing else, whatever records it had collected; so does a search whose
\* provider is missing or does not start.
C19_NoPartialOutput ==
    /\ (crReturned /\ crBroken) =>
           /\ crOut.out.status = "error"
           /\ DOMAIN crOut.out = {"status", "error_message"}
    /\ (srReturned /\ srBroken) =>
           /\ srOut.out.status = "error"
           /\ DOMAIN srOut.out = {"status", "error_message"}

\* The crawler raised on the way out, after the records of two urls were
\* collected
C19_Witness ==
    /\ crReturned /\ crCo.pc = "raised"
    /\ Len(crResults.crawled_data) = 2
    /\ crResults.success_count = 2
    /\ crOut.out.status = "error"

\* C20: every status = "success" record has an html and a markdown of at
\* most 5000 characters and at most 20 links, each the beginning of what
\* the crawler gave back, and its content_size_bytes is the length of the
\* html the crawler gave back.
C20_RecordsTruncated ==
    crResults # NotCalled =>
        \A i \in 1..Len(crResults.crawled_data) :
            LET record == crResults.crawled_data[i]
                page == crGot[i]
            IN  record.status = "success" =>
                   /\ record.html.len <= 5000 /\ record.html.len <= page.html.len
                   /\ record.markdown.len <= 5000 /\ record.markdown.len <= page.markdown.len
                   /\ record.links <= 20 /\ record.links <= page.links
                   /\ record.content_size_bytes = page.html.len

\* A page of 5001 characters of html and 21 links, returned in a success
\* result
C20_Witness ==
    /\ crReturned /\ crOut.out.status = "success"
    /\ Len(crGot) >= 1
    /\ crGot[1].kind = "page" /\ crGot[1].html.len = 5001 /\ crGot[1].links = 21
    /\ crOut.out.crawled_data[1].html.len = 5000
    /\ crOut.out.crawled_data[1].links = 20
    /\ crOut.out.crawled_data[1].content_size_bytes = 5001

------------------------------------------------------------------------------
(* Properties of the extraction *)

\* The call returned a result that carries structured_data
exExtracted == exOut.called /\ "structured_data" \in DOMAIN exOut.out

\* The <p> elements of the document given (none when it is not markup)
exParagraphs ==
    IF exArgs.html_content = NotMarkup THEN <<>> ELSE exArgs.html_content.paragraphs

\* The stripped text of paragraph p stands in structured_data.paragraphs
exListed(p) ==
    \E j \in 1..Len(exOut.out.structured_data.paragraphs) :
        exOut.out.structured_data.paragraphs[j] = Text(p.body, p.len, 0)

\* C14: structured_data.paragraphs never holds a paragraph whose stripped
\* text is shorter than 20 characters, and always holds a paragraph of the
\* document whose stripped text is exactly 21 characters long.
C14_ParagraphFilter ==
    exExtracted =>
        /\ \A j \in 1..Len(exOut.out.structured_data.paragraphs) :
             exOut.out.structured_data.paragraphs[j].len >= 20
        /\ \A i \in 1..Len(exParagraphs) :
             /\ exParagraphs[i].len < 20 => ~exListed(exParagraphs[i])
             /\ exParagraphs[i].len = 21 => exListed(exParagraphs[i])

\* A document with a paragraph of 19 characters between blanks and one of
\* 21 characters between blanks: only the second is kept
C14_Witness ==
    /\ exExtracted
    /\ exParagraphs = <<Text("q19", 19, 2), Text("q21", 21, 3)>>
    /\ exOut.out.structured_data.paragraphs = <<Text("q21", 21, 0)>>

\* C15: every paragraph of the document whose stripped text has 20 or more
\* characters stands in structured_data.paragraphs.
C15_MinimumLengthKept ==
    exExtracted =>
        \A i \in 1..Len(exParagraphs) :
            exParagraphs[i].len >= 20 => exListed(exParagraphs[i])

\* C15 for the paragraphs of more than 20 characters
C15_MinimumLengthKept_Over20 ==
    exExtracted =>
        \A i \in 1..Len(exParagraphs) :
            exParagraphs[i].len > 20 => exListed(exParagraphs[i])

\* C26: within one call of the builder the packet_id values are pairwise
\* distinct, also when the clock's second changes while the packets are
\* built.
C26_PacketIdsDistinct ==
    pkReturned =>
        \A i, j \in 1..Len(pkOut.out.value.packets) :
            i # j => pkOut.out.value.packets[i].packet_id # pkOut.out.value.packets[j].packet_id

\* Two packets built in one call, the second changing between them
C26_Witness ==
    /\ pkReturned
    /\ Len(pkOut.out.value.packets) = 2
    /\ pkOut.out.value.packets[1].timestamp # pkOut.out.value.packets[2].timestamp

\* The records of crawled_data that carry the url of the i-th entry
pkRecordsFor(i) ==
    { j \in 1..Len(pkCrawled) :
        /\ "url" \in DOMAIN pkCrawled[j] /\ "url" \in DOMAIN pkEntries[i]
        /\ pkCrawled[j].url = pkEntries[i].url }

pkLastRecordFor(i) == pkCrawled[CHOOSE j \in pkRecordsFor(i) : \A k \in pkRecordsFor(i) : k <= j]

\* C29: when one or several records of crawled_data carry the url of a
\* packet's entry, the packet's crawl_status, crawled_html_size and
\* crawl_timestamp are all those of the last such record in list order, a
\* key that record lacks giving the default.
C29_LastRecordWins ==
    pkReturned =>
        \A i \in 1..Len(pkOut.out.value.packets) :
            pkRecordsFor(i) # {} =>
                LET content == pkOut.out.value.packets[i].data.content
                    last == pkLastRecordFor(i)
                IN  /\ content.crawl_status = Get(last, "status", "")
                    /\ content.crawled_html_size = Get(last, "content_size_bytes", 0)
                    /\ content.crawl_timestamp = Get(last, "crawl_timestamp", "")

\* Two records carry the url of the first packet, a success with size and
\* timestamp and then an error without: the packet shows the error and the
\* defaults
C29_Witness ==
    /\ pkReturned
    /\ Len(pkOut.out.value.packets) >= 1
    /\ Cardinality(pkRecordsFor(1)) = 2
    /\ pkCrawled[1].status = "success" /\ pkCrawled[2].status = "error"
    /\ pkOut.out.value.packets[1].data.content.crawl_status = "error"
    /\ pkOut.out.value.packets[1].data.content.crawled_html_size = 0
    /\ pkOut.out.value.packets[1].data.content.crawl_timestamp = ""

\* C27: at every point of a crawl, between two fetches and at the return,
\* success_count is the number of status = "success" records of
\* crawled_data, error_count the number of status = "error" records, their
\* sum the number of records, and total_size_bytes the sum of
\* content_size_bytes over the success records.
C27_CountersMatchRecords ==
    crResults # NotCalled =>
        LET records == crResults.crawled_data
        IN  /\ crResults.success_count = Cardinality(WithStatus(records, "success"))
            /\ crResults.error_count = Cardinality(WithStatus(records, "error"))
            /\ crResults.success_count + crResults.error_count = Len(records)
            /\ crResults.total_size_bytes = SizeOfSuccesses(records)
            /\ (crReturned /\ crOut.out.status = "success") => crOut.out = crResults

\* In the middle of a crawl of two urls: the first fetch failed, the second
\* is still to come
C27_Witness ==
    /\ crResults # NotCalled
    /\ crCo.pc = "fetch" /\ crCo.i = 2
    /\ Len(crResults.crawled_data) = 1
    /\ crResults.error_count = 1 /\ crResults.success_count = 0

\* The urls argument is a str (not a list), and what it decodes to
crGivenString == crPc # "idle" /\ crArgs.urls.k # "list"
crGivenJsonList == crArgs.urls.k = "json" /\ crArgs.urls.v.t = "array"

\* C28: when urls is given as a string, the urls fetched are the elements
\* of the JSON-decoded list, or the whole string as one url when the string
\* is not a JSON-encoded list: no string is split into pieces that are each
\* crawled, and the result holds one record per url.
C28_StringIsListOrOneUrl ==
    crGivenString =>
        LET wanted == IF crGivenJsonList THEN Len(crArgs.urls.v.items) ELSE 1
        IN  /\ Len(crFetched) <= wanted
            /\ crGivenJsonList => IsPrefixOf(crFetched, crArgs.urls.v.items)
            /\ crArgs.urls.k = "malformed" => IsPrefixOf(crFetched, <<crArgs.urls.s>>)
            /\ (crReturned /\ crOut.out.status = "success") =>
                  /\ Len(crFetched) = wanted
                  /\ Len(crOut.out.crawled_data) = wanted

\* C28 for the strings that are a JSON-encoded list or no JSON at all
C28_StringIsListOrOneUrl_NoOtherJson ==
    (crGivenString /\ (crGivenJsonList \/ crArgs.urls.k = "malformed")) =>
        LET wanted == IF crGivenJsonList THEN Len(crArgs.urls.v.items) ELSE 1
        IN  /\ Len(crFetched) <= wanted
            /\ crGivenJsonList => IsPrefixOf(crFetched, crArgs.urls.v.items)
            /\ crArgs.urls.k = "malformed" => IsPrefixOf(crFetched, <<crArgs.urls.s>>)
            /\ (crReturned /\ crOut.out.status = "success") =>
                  /\ Len(crFetched) = wanted
                  /\ Len(crOut.out.crawled_data) = wanted

\* The JSON text of the string "ab" was given: "a" and "b" were each crawled
C28_StringSplit ==
    /\ crGivenString /\ crArgs.urls = JsonDumps(JsonString(<<"a", "b">>))
    /\ crFetched = <<"a", "b">>
    /\ crReturned /\ Len(crOut.out.crawled_data) = 2

------------------------------------------------------------------------------
(* Properties of run_python_code *)

\* The statements of the k-th call that ran to their end, and those of all
\* the calls before it, in the order they ran
pyExecuted(k) == SubSeq(pyCalls[k].code, 1, pyCalls[k].ran)

RECURSIVE pyRanBefore(_)
pyRanBefore(k) == IF k = 1 THEN <<>> ELSE pyRanBefore(k - 1) \o pyExecuted(k - 1)

\* What ran before statement i of the k-th call
pyPrefix(k, i) == pyRanBefore(k) \o SubSeq(pyCalls[k].code, 1, i - 1)

pyAssignments(stmts, name) ==
    { j \in 1..Len(stmts) : stmts[j].op = "assign" /\ stmts[j].name = name }
pyBound(stmts, name) == pyAssignments(stmts, name) # {}
pyLatestValue(stmts, name) ==
    stmts[CHOOSE j \in pyAssignments(stmts, name) :
            \A l \in pyAssignments(stmts, name) : l <= j].value

\* What statement i of the k-th call raises when it is reached
pyFails(k, i) ==
    LET stmt == pyCalls[k].code[i]
    IN  CASE stmt.op = "raise" -> "ValueError"
          [] stmt.op = "exit" -> "SystemExit"
          [] stmt.op = "print_name" /\ ~pyBound(pyPrefix(k, i), stmt.name) -> "NameError"
          [] OTHER -> "none"

\* What the first i statements of the k-th call print
RECURSIVE pyPrinted(_, _)
pyPrinted(k, i) ==
    IF i = 0 THEN <<>>
    ELSE LET stmt == pyCalls[k].code[i]
         IN  CASE stmt.op = "print" -> Append(pyPrinted(k, i - 1), stmt.text)
               [] stmt.op = "print_name" ->
                     Append(pyPrinted(k, i - 1), pyLatestValue(pyPrefix(k, i), stmt.name))
               [] OTHER -> pyPrinted(k, i - 1)

pyNames == {"x"}

\* C23: every call runs in the one namespace of the process: after any
\* sequence of calls a name bound by an earlier call is visible, with its
\* latest value, to every later call (a print of it does not fail and shows
\* that value), the namespace holds the latest binding of every name, and
\* the stdout a call returns is exactly what that call's code printed.
C23_OneNamespace ==
    /\ \A k \in 1..Len(pyCalls) :
          LET call == pyCalls[k]
          IN  Compiles(call.code) =>
                /\ \A i \in 1..call.ran : pyFails(k, i) = "none"
                /\ call.ran < Len(call.code) => pyFails(k, call.ran + 1) # "none"
                /\ ~call.out.raised => call.out.value.stdout = pyPrinted(k, call.ran)
    /\ \A name \in pyNames :
          LET ran == pyRanBefore(Len(pyCalls) + 1)
          IN  /\ name \in DOMAIN EXEC_GLOBALS <=> pyBound(ran, name)
              /\ pyBound(ran, name) => EXEC_GLOBALS[name] = pyLatestValue(ran, name)

\* A first call binds x twice and a second call prints it: the second
\* call's stdout holds the later value and nothing else
C23_Witness ==
    /\ Len(pyCalls) = 2
    /\ pyCalls[1].code = <<Assign("x", "1"), Assign("x", "2")>>
    /\ pyCalls[2].code = <<PrintText("hi"), PrintName("x")>>
    /\ pyCalls[2].out.value.status = "success"
    /\ pyCalls[2].out.value.stdout = <<"hi", "2">>

\* What the k-th call's code raises: a SyntaxError when it does not
\* compile, what its first failing statement raises, or nothing
pyRaises(k) ==
    LET call == pyCalls[k]
    IN  IF ~Compiles(call.code) THEN "SyntaxError"
        ELSE IF call.ran < Len(call.code) THEN pyFails(k, call.ran + 1)
        ELSE "none"

\* C30: when the code of a call raises an Exception the call returns status
\* "error" with the traceback in error and, in stdout, what was printed
\* before the failure, and the bindings made before the failure remain in
\* the namespace; a call whose code raises nothing returns status "success"
\* with no error field.
C30_ErrorKeepsOutputAndBindings ==
    \A k \in 1..Len(pyCalls) :
        LET call == pyCalls[k]
        IN  /\ pyRaises(k) \in {"ValueError", "NameError", "SyntaxError"} =>
                  /\ ~call.out.raised
                  /\ call.out.value.status = "error"
                  /\ call.out.value.error.traceback = pyRaises(k)
                  /\ call.out.value.stdout = pyPrinted(k, call.ran)
                  /\ k = Len(pyCalls) =>
                        \A name \in pyNames :
                            pyBound(pyExecuted(k), name) =>
                                /\ name \in DOMAIN EXEC_GLOBALS
                                /\ EXEC_GLOBALS[name] = pyLatestValue(pyExecuted(k), name)
            /\ pyRaises(k) = "none" =>
                  /\ ~call.out.raised
                  /\ call.out.value.status = "success"
                  /\ "error" \notin DOMAIN call.out.value

\* After a call that bound x, a call prints x, rebinds it and fails: it
\* returns the error with the printed value, and x keeps the new value
C30_Witness ==
    /\ Len(pyCalls) = 2
    /\ pyCalls[1].code = <<Assign("x", "1"), PrintName("x")>>
    /\ pyCalls[2].code = <<Assign("x", "2"), RaiseValueError>>
    /\ pyCalls[2].out.value.status = "error"
    /\ pyCalls[2].out.value.error.traceback = "ValueError"
    /\ pyCalls[2].out.value.stdout = <<>>
    /\ EXEC_GLOBALS["x"] = "2"

------------------------------------------------------------------------------
(* Properties of the tools description *)

mcReturned == mcPc = "done" /\ mcOut.called

\* A description: the short text, or the header and what follows it
IsDescription(text) ==
    /\ Len(text) >= 1
    /\ text[1] \in {ShortDescription[1], DescriptionHeader}

\* C24: _get_mcp_tools_description_sync returns a description whatever the
\* loop state: with no loop running on the calling thread asyncio.run is
\* called there; with a loop running it is called on a separate thread,
\* which the caller waits for, and the call returns that thread's value, or
\* the fallback text if the thread raised; asyncio.run is never called on a
\* thread whose loop is running.
C24_DescriptionWhateverTheLoop ==
    /\ \A r \in mcRunOn : ~r.runs_loop
    /\ mcPc # "idle" =>
          /\ ~mcArgs.loop_running => (\A r \in mcRunOn : r.thread = "caller") /\ mcThread = "none"
          /\ mcArgs.loop_running => \A r \in mcRunOn : r.thread = "runner"
    /\ mcReturned =>
          /\ ~mcOut.out.raised
          /\ IsDescription(mcOut.out.value)
          /\ mcRunOn # {}
          /\ mcArgs.loop_running =>
                /\ mcThread \in {"finished", "raised"}
                /\ mcThread = "finished" =>
                      mcOut.out.value = get_mcp_tools_description(mcArgs.get_tools)
                /\ mcThread = "raised" => mcOut.out.value = FallbackDescription
          /\ ~mcArgs.loop_running =>
                mcOut.out.value = get_mcp_tools_description(mcArgs.get_tools)

\* Called under a running loop with a server that lists two tools: the
\* description made on the runner thread is returned
C24_Witness ==
    /\ mcReturned /\ mcArgs.loop_running
    /\ ~mcArgs.get_tools.raised /\ Len(mcArgs.get_tools.value) = 2
    /\ mcRunOn = {[thread |-> "runner", runs_loop |-> FALSE]}
    /\ Len(mcOut.out.value) = 3

------------------------------------------------------------------------------
(* Properties of the LangGraph agent *)

\* The i-th step of the run was an agent step that asked for tools
lgAskedForTools(i) ==
    /\ lgTrace[i].node = "agent"
    /\ "tool_calls" \in DOMAIN lgTrace[i].last
    /\ lgTrace[i].last.tool_calls # <<>>

\* The node that follows the i-th step: the one run next, or the one the
\* run is about to enter
lgFollowing(i) == IF i < Len(lgTrace) THEN lgTrace[i + 1].node ELSE lgNode

\* C25: every run starts at the agent node; after an agent step the run
\* goes to the tools node exactly when the last message has tool calls, and
\* ends otherwise; after the tools node it goes back to the agent node.  So
\* the tools node never runs twice in a row and never first, and a run ends
\* only after an agent step that asked for no tools.
C25_GraphRouting ==
    /\ lgNode = START => lgTrace = <<>>
    /\ lgTrace = <<>> => lgNode \in {"idle", START, "agent"}
    /\ lgTrace # <<>> => lgTrace[1].node = "agent"
    /\ \A i \in 1..Len(lgTrace) :
          /\ lgTrace[i].node = "agent" =>
                lgFollowing(i) = (IF lgAskedForTools(i) THEN "tools" ELSE END)
          /\ lgTrace[i].node = "tools" =>
                /\ lgFollowing(i) = "agent"
                /\ i > 1 /\ lgAskedForTools(i - 1)
    /\ lgNode = END =>
          /\ lgTrace # <<>>
          /\ lgTrace[Len(lgTrace)].node = "agent"
          /\ ~lgAskedForTools(Len(lgTrace))

\* A run of agent, tools, agent, tools, agent that has ended
C25_Witness ==
    /\ lgNode = END
    /\ Len(lgTrace) = 5
    /\ lgTrace[2].node = "tools" /\ lgTrace[4].node = "tools"
    /\ lgTrace[5].last.content = "answer"

------------------------------------------------------------------------------
(* Properties of the mock search *)

\* The urls of the fixed mock list, in its order
MockListUrls ==
    <<"https://www.ndma.gov.in/disaster-management/floods",
      "https://www.thehindu.com/news/national/floods-india-2024",
      "https://www.imd.gov.in/weather-warnings">>

srMocked == srReturned /\ srArgs.use_mock /\ srArgs.max_results >= 0

\* C21: a mock search with max_results of zero or more returns success with
\* exactly min(max_results, 3) entries, which are the first entries of the
\* fixed mock list in its order, and total_count is the number returned.
C21_MockReturnsFirstEntries ==
    srMocked =>
        LET found == srOut.out.discovered_urls
            wanted == IF srArgs.max_results < 3 THEN srArgs.max_results ELSE 3
        IN  /\ srOut.out.status = "success"
            /\ Len(found) = wanted
            /\ \A i \in 1..Len(found) : found[i].url = MockListUrls[i]
            /\ srOut.out.total_count = Len(found)

\* A mock search with max_results = 2 has returned the first two entries
C21_Witness ==
    /\ srMocked /\ srArgs.max_results = 2
    /\ Len(srOut.out.discovered_urls) = 2
    /\ srOut.out.discovered_urls[2].url = MockListUrls[2]

------------------------------------------------------------------------------
(* Properties of the formatter *)

fmReturned == fmOut.called /\ ~fmOut.out.raised

\* The formatter was given json.dumps of the dict the builder returned
fmGivenBuilderResult ==
    /\ fmOut.called /\ pkOut.called /\ ~pkOut.out.raised
    /\ fmArgs.packet_data = JsonDumps(JsonObject(pkOut.out.value))

\* The formatter was given a string that is not JSON, or no string at all
fmGivenNoJson == fmOut.called /\ fmArgs.packet_data.k \in {"none", "dict", "empty", "malformed"}

====
